---- MODULE Spec2Model ----
(***************************************************************************)
(* SPI NOR flash backup / restore engine of the PicotoFlash tools.         *)
(*                                                                         *)
(* The device is a window of MemBytes bytes of NOR flash (erase sets a     *)
(* sector to 0xFF, page program ANDs data into a page), its status         *)
(* registers, its address mode and its busy bit.  The program side is one  *)
(* call of one of the library's entry points, stepped at the granularity   *)
(* of the SPI commands it sends.                                           *)
(*                                                                         *)
(* The geometry is scaled: a page is 2^PageShift bytes (2^8 on the parts)  *)
(* and a sector 2^SectShift bytes (2^12 on the parts); wherever the code   *)
(* writes 256 or 4096 the model writes PAGE or SECT.  Byte values, opcodes *)
(* and address bytes are the real ones.                                    *)
(***************************************************************************)
EXTENDS Integers, Sequences, FiniteSets, TLC

VARIABLES
    mem,    \* device: flash array, address -> byte
    dev,    \* device: status registers, busy bit, address mode, fault switches
    bus,    \* every command frame the program has sent, oldest first
    inp,    \* the arguments of the call under way (fixed after Init)
    st      \* the call's locals and its position

vars == <<mem, dev, bus, inp, st>>

----------------------------------------------------------------------------
(* Bounds of the model *)

\* log2 of the page size and of the sector size
PageShift == 1
SectShift == 2
\* number of sectors of flash that the model tracks
NumSectors == 2
\* number of bytes an injected fault may corrupt during one call
MaxFaults == 1
\* number of calls made on the command helpers in one run
MaxCalls == 2

----------------------------------------------------------------------------
(* Arithmetic of the C types *)

\* uint32_t and size_t arithmetic wraps at the word size.  TLC computes in
\* signed 32-bit integers, so the model's word is 30 bits wide: addresses run
\* over 0 .. 2^30 - 1 (past the 16 MiB limit of 3-byte addressing) and sums
\* of two words still fit.
U32 == 2^30
Wrap32(x) == x % U32

RECURSIVE BitAnd(_, _)
BitAnd(a, b) ==
    IF a = 0 \/ b = 0 THEN 0
    ELSE (a % 2) * (b % 2) + 2 * BitAnd(a \div 2, b \div 2)

Min(a, b) == IF a < b THEN a ELSE b

FF == 255
SECT == 2^SectShift
PAGE == 2^PageShift
MemBytes == NumSectors * SECT

----------------------------------------------------------------------------
(* Command frames: what the program puts on the bus *)

\* the address bytes of a frame, most significant first
AddrBytes3Only(use4, addr) ==
    << (addr \div 65536) % 256, (addr \div 256) % 256, addr % 256 >>

AddrBytes(use4, addr) ==
    (IF use4 THEN << (addr \div 16777216) % 256 >> ELSE << >>)
    \o << (addr \div 65536) % 256, (addr \div 256) % 256, addr % 256 >>

\* jedec_read_chunk: opcode, address, one dummy byte for fast read
ReadHdr(chip, addr) ==
    << chip.read_cmd >> \o AddrBytes(chip.use_4byte_addr, addr)
    \o (IF chip.read_cmd = 11 THEN << 0 >> ELSE << >>)

\* erase_4k: 0x20 and the address
EraseHdr(chip, addr) == << 32 >> \o AddrBytes(chip.use_4byte_addr, addr)

\* prog_page: 0x02 and the address (the data follows the header)
ProgHdr(chip, addr) == << 2 >> \o AddrBytes(chip.use_4byte_addr, addr)

\* one frame on the bus: the bytes sent before the data phase and the
\* number of data bytes sent or received after them
Frame(hdr, n) == [hdr |-> hdr, n |-> n]

----------------------------------------------------------------------------
(* The device *)

\* the address the device latches from a frame: as many bytes after the
\* opcode as its current address mode says, most significant first
RECURSIVE BigEndian(_)
BigEndian(s) ==
    IF s = << >> THEN 0
    ELSE 256 * BigEndian(SubSeq(s, 1, Len(s) - 1)) + s[Len(s)]

DevAddr(d, hdr) == BigEndian(SubSeq(hdr, 2, IF d.mode4 THEN 5 ELSE 4))

\* block-protect bits BP0..BP4 of SR1 lock the array against erase/program
BPMask == 124
DevLocked(d) == BitAnd(d.sr1, BPMask) # 0

\* bytes read starting at address a (outside the tracked window the model
\* reads erased flash)
DevRead(m, a) == IF a \in DOMAIN m THEN m[a] ELSE FF

\* sector erase (0x20): the sector holding a goes to 0xFF
DevErase4k(m, d, a) ==
    IF DevLocked(d) THEN m
    ELSE [t \in DOMAIN m |-> IF t \div SECT = a \div SECT THEN FF ELSE m[t]]

\* page program of n data bytes data[0..n-1] at a: bits only go 1 -> 0, the
\* address wraps inside the page, and of more bytes than a page holds the
\* last one sent to a cell is kept
ByteAnd(x, y) == IF x = FF THEN y ELSE IF y = FF THEN x ELSE BitAnd(x, y)

DevProgram(m, d, a, data, n) ==
    IF DevLocked(d) \/ n = 0 THEN m
    ELSE [t \in DOMAIN m |->
            IF t \div PAGE # a \div PAGE THEN m[t]
            ELSE LET k == (t - a) % PAGE
                 IN  IF k >= n THEN m[t]
                     ELSE ByteAnd(m[t], data[k + PAGE * ((n - 1 - k) \div PAGE)])]

\* 64 KiB block erase (0xD8/0xDC): sixteen sectors
BLOCK == 16 * SECT

DevErase64k(m, d, a) ==
    IF DevLocked(d) THEN m
    ELSE [t \in DOMAIN m |-> IF t \div BLOCK = a \div BLOCK THEN FF ELSE m[t]]

\* chip erase (0xC7)
DevChipErase(m, d) == IF DevLocked(d) THEN m ELSE [t \in DOMAIN m |-> FF]

\* WRSR with one or two data bytes: a device that accepts it takes the
\* writable bits of SR1 (2..7) and SR2; bits 0..1 of SR1 are WIP and WEL
DevWriteSR(d, s1, s2) ==
    IF d.wrsr_ok
    THEN [d EXCEPT !.sr1 = BitAnd(s1, 252), !.sr2 = s2, !.wip = TRUE]
    ELSE [d EXCEPT !.wip = TRUE]

\* value of SR1 as RDSR1 returns it: bit 0 is the busy bit
DevSR1(d) == d.sr1 + (IF d.wip THEN 1 ELSE 0)

----------------------------------------------------------------------------
(* The image being restored and the flash contents it meets *)

\* byte i of the image (the stream the source callback delivers)
ImgByte(pat, i) ==
    CASE pat = "blank"  -> FF
      [] pat = "zeros"  -> 0
      [] pat = "data"   -> 165
      [] pat = "sparse" -> IF i % SECT = 1 THEN 90 ELSE FF
      [] pat = "tail"   -> IF i >= SECT THEN 165 ELSE FF

ImgPats == {"blank", "zeros", "data", "sparse", "tail"}

\* what the flash holds when the call starts
MemInit(pat) ==
    [t \in 0 .. MemBytes - 1 |->
        CASE pat = "erased" -> FF
          [] pat = "zeros"  -> 0
          [] pat = "old"    -> IF t \div SECT = 0 THEN 240 ELSE FF
          [] pat = "ramp"   -> 16 + (t % 200)]

MemPats == {"erased", "zeros", "old"}

\* the device when the call starts: unlocked, locked with a working WRSR,
\* locked with WRSR silently rejected, or never leaving the busy state
DevInit(kind, mode4) ==
    [sr1     |-> IF kind \in {"locked", "rejecting"} THEN 156 ELSE 0,
     sr2     |-> 2,
     wip     |-> FALSE,
     mode4   |-> mode4,
     wrsr_ok |-> kind # "rejecting",
     stuck   |-> kind = "stuck"]

DevKinds == {"open", "locked", "rejecting", "stuck"}

----------------------------------------------------------------------------
(* Shared pieces of the program side *)

Send(frames) == bus' = bus \o frames

\* leave the call with a result
Return(ok, why) == [st EXCEPT !.pc = "done", !.ok = ok, !.why = why]

\* wait_busy(): while (rd_status1() & 0x01) sleep;  the poll either still
\* reads busy, and the loop goes round, or reads ready, and the caller goes on
WaitBusy ==
    /\ st.pc = "wait"
    /\ \E ready \in (IF dev.stuck THEN {FALSE} ELSE {TRUE, FALSE}) :
          IF ready
          THEN /\ dev' = [dev EXCEPT !.wip = FALSE]
               /\ st' = [st EXCEPT !.pc = st.ret]
          ELSE UNCHANGED <<dev, st>>
    /\ UNCHANGED <<mem, bus, inp>>

----------------------------------------------------------------------------
(* jedec_try_unprotect *)

\* read SR1, SR2, SR3 for the diagnostic print
UnpRead ==
    /\ st.pc = "unp_read"
    /\ Send(<< Frame(<<5>>, 1), Frame(<<53>>, 1), Frame(<<21>>, 1) >>)
    /\ st' = [st EXCEPT !.pc = "unp_gul",
                        !.sr1_before = DevSR1(dev), !.sr2_before = dev.sr2]
    /\ UNCHANGED <<mem, dev, inp>>

\* 1) WREN, global block unlock 0x98, wait_busy
UnpGlobalUnlock ==
    /\ st.pc = "unp_gul"
    /\ Send(<< Frame(<<6>>, 0), Frame(<<152>>, 0) >>)
    /\ dev' = [dev EXCEPT !.wip = TRUE]
    /\ st' = [st EXCEPT !.pc = "wait", !.ret = "unp_wrsr"]
    /\ UNCHANGED <<mem, inp>>

\* the SR1 value jedec_try_unprotect writes: bits 2..7 cleared
Sr1New(sr1_before) == sr1_before - BitAnd(sr1_before, 252)

\* 2) EWSR 0x50, WREN, WRSR with the two data bytes, wait_busy
UnpWriteSR ==
    /\ st.pc = "unp_wrsr"
    /\ LET s1 == Sr1New(st.sr1_before)
           s2 == st.sr2_before
       IN  /\ Send(<< Frame(<<80>>, 0), Frame(<<6>>, 0), Frame(<<1, s1, s2>>, 0) >>)
           /\ dev' = DevWriteSR(dev, s1, s2)
    /\ st' = [st EXCEPT !.pc = "wait", !.ret = "unp_check"]
    /\ UNCHANGED <<mem, inp>>

\* read back, warn when BP bits remain, return true either way
UnpReadback ==
    /\ st.pc = "unp_check"
    /\ Send(<< Frame(<<5>>, 1), Frame(<<53>>, 1), Frame(<<21>>, 1) >>)
    /\ st' = [st EXCEPT !.pc = st.after_unp,
                        !.bp_cleared = (BitAnd(DevSR1(dev), BPMask) = 0),
                        !.unp_ret = TRUE,
                        !.unprotected = TRUE]
    /\ UNCHANGED <<mem, dev, inp>>

----------------------------------------------------------------------------
(* jedec_restore_stream *)

NoOpts == [null |-> TRUE]

\* the options in force: the defaults from the chip profile, replaced
\* wholesale by *opts_in when the caller passes one
EffectiveOpts(chip, opts_in) ==
    IF opts_in = NoOpts
    THEN [verify_after_write     |-> TRUE,
          skip_erase_when_all_ff |-> TRUE,
          skip_prog_when_all_ff  |-> TRUE,
          program_chunk |-> IF chip.page_size # 0 THEN chip.page_size ELSE PAGE,
          erase_gran    |-> IF chip.sector_size # 0 THEN chip.sector_size ELSE SECT]
    ELSE opts_in

\* buf[i] after a successful pull of the block at st.base
Buf(i) == ImgByte(inp.img, Wrap32(st.base + i - inp.offset))

\* all_ff(&buf[from], n)
AllFF(from, n) == \A i \in from .. from + n - 1 : Buf(i) = FF

\* where the restore goes once its options and buffers are set up: into
\* jedec_try_unprotect, and only from there into the block loop
AfterSetupSkipsUnprotect == "rs_loop"

AfterSetup == "unp_read"

\* if (!src) return false;  set up opts, malloc of buf and vbuf (which may
\* fail), jedec_try_unprotect
RsEntry ==
    /\ inp.entry = "stream"
    /\ st.pc = "entry"
    /\ IF ~inp.has_src
       THEN st' = Return(FALSE, "NoSource")
       ELSE LET o == EffectiveOpts(inp.chip, inp.opts)
            IN  \E alloc_ok \in BOOLEAN :
                  IF ~alloc_ok
                  THEN st' = Return(FALSE, "NoMemory")
                  ELSE st' = [st EXCEPT !.pc = AfterSetup, !.after_unp = "rs_loop",
                                        !.opts = o, !.sector = o.erase_gran,
                                        !.end_ = Wrap32(inp.offset + inp.len),
                                        !.base = inp.offset]
    /\ UNCHANGED <<mem, dev, bus, inp>>

\* if (!src(buf, want, &got, base, user) || got != want): r is what the
\* callback returned
PullFailedIgnoresGot(r, got, want) == ~r

PullFailed(r, got, want) == ~r \/ got # want

\* the record of the pulls made keeps the first MaxPulls of them
MaxPulls == 8

\* a variant that asks for a whole block every time
PullWantWhole(base, sector, end_) == sector

\* size_t want = sector; if (base + want > end) want = end - base;
PullWant(base, sector, end_) ==
    IF Wrap32(base + sector) > end_ THEN Wrap32(end_ - base) ELSE sector

\* loop test, size of the block and the source pull
RsPull ==
    /\ st.pc = "rs_loop"
    /\ IF ~(st.base < st.end_)
       THEN st' = Return(TRUE, "Ok")
       ELSE LET want == PullWant(st.base, st.sector, st.end_)
            IN  \E r \in BOOLEAN, short \in BOOLEAN :
                  LET got  == IF short THEN want - 1 ELSE want
                      pull == [base |-> st.base, want |-> want, got |-> got,
                               ret |-> r]
                      s1   == [st EXCEPT !.want = want,
                                         !.pulls = IF Len(st.pulls) < MaxPulls
                                                   THEN Append(st.pulls, pull)
                                                   ELSE st.pulls]
                  IN  IF PullFailed(r, got, want)
                      THEN st' = [s1 EXCEPT !.pc = "done", !.ok = FALSE,
                                            !.why = "ShortRead"]
                      ELSE st' = [s1 EXCEPT !.pc = "rs_block"]
    /\ UNCHANGED <<mem, dev, bus, inp>>

\* bool skip_sector = opts.skip_erase_when_all_ff && all_ff(buf, want);
SkipSectorNever == FALSE

SkipSector == st.opts.skip_erase_when_all_ff /\ AllFF(0, st.want)

\* a block that is not skipped is erased first: erase_4k(chip, base)
RsErase ==
    /\ st.pc = "rs_block"
    /\ IF SkipSector
       THEN /\ st' = [st EXCEPT !.pc = "rs_loop",
                                !.base = Wrap32(st.base + st.sector)]
            /\ UNCHANGED <<mem, dev, bus>>
       ELSE LET hdr == EraseHdr(inp.chip, st.base)
            IN  /\ Send(<< Frame(<<6>>, 0), Frame(hdr, 0) >>)
                /\ mem' = DevErase4k(mem, dev, DevAddr(dev, hdr))
                /\ dev' = [dev EXCEPT !.wip = TRUE]
                /\ st' = [st EXCEPT !.pc = "wait", !.ret = "rs_prog", !.off = 0]
    /\ UNCHANGED inp

\* one round of the page loop: the bytes up to the next program_chunk
\* boundary, programmed unless they are all 0xFF and skipping is on
RsProgPage ==
    /\ st.pc = "rs_prog"
    /\ st.off < st.want
    /\ LET page_addr == Wrap32(st.base + st.off)
           page_off  == BitAnd(page_addr, Wrap32(st.opts.program_chunk - 1))
           this_left == Wrap32(st.opts.program_chunk - page_off)
           remain    == st.want - st.off
           n         == Min(this_left, remain)
           hdr       == ProgHdr(inp.chip, page_addr)
           data      == [i \in 0 .. n - 1 |-> Buf(st.off + i)]
       IN  IF st.opts.skip_prog_when_all_ff /\ AllFF(st.off, n)
           THEN /\ st' = [st EXCEPT !.off = st.off + n]
                /\ UNCHANGED <<mem, dev, bus>>
           ELSE /\ Send(<< Frame(<<6>>, 0), Frame(hdr, n) >>)
                /\ mem' = DevProgram(mem, dev, DevAddr(dev, hdr), data, n)
                /\ dev' = [dev EXCEPT !.wip = TRUE]
                /\ st' = [st EXCEPT !.pc = "wait", !.ret = "rs_prog",
                                    !.off = st.off + n]
    /\ UNCHANGED inp

\* the bytes of the block as jedec_read_chunk returns them into vbuf
VBuf(i) ==
    LET hdr == ReadHdr(inp.chip, st.base)
    IN  DevRead(mem, DevAddr(dev, hdr) + i)

\* indices at which the read-back differs from what was written
Mismatches == {i \in 0 .. st.want - 1 : Buf(i) # VBuf(i)}

\* while (bad < want && buf[bad] == vbuf[bad]) bad++;
FirstBadSkipsOne(S) == (CHOOSE i \in S : \A j \in S : i <= j) + 1

FirstBad(S) == CHOOSE i \in S : \A j \in S : i <= j

\* a mismatch found: free(buf); free(vbuf); return false;
VerifyFailContinues(s) ==
    [s EXCEPT !.pc = "rs_loop", !.base = Wrap32(s.base + s.sector)]

VerifyFail(s) == [s EXCEPT !.pc = "done", !.ok = FALSE]

\* after the page loop: read back and compare when verify_after_write,
\* report the first differing byte and give up, else go to the next block
RsVerify ==
    /\ st.pc = "rs_prog"
    /\ ~(st.off < st.want)
    /\ IF st.opts.verify_after_write
       THEN /\ Send(<< Frame(ReadHdr(inp.chip, st.base), st.want) >>)
            /\ IF Mismatches # {}
               THEN LET bad == FirstBad(Mismatches)
                    IN  st' = VerifyFail(
                                [st EXCEPT !.why = "VerifyMismatch",
                                           !.mm = [base  |-> st.base,
                                                   bad   |-> bad,
                                                   wrote |-> Buf(bad),
                                                   read  |-> VBuf(bad)]])
               ELSE st' = [st EXCEPT !.pc = "rs_loop",
                                     !.base = Wrap32(st.base + st.sector)]
       ELSE /\ st' = [st EXCEPT !.pc = "rs_loop",
                                !.base = Wrap32(st.base + st.sector)]
            /\ UNCHANGED bus
    /\ UNCHANGED <<mem, dev, inp>>

\* fault injection: one cell of the block just programmed changes before
\* the read-back (a marginal cell, a disturbed write)
FaultOffsets == {0, 1, PAGE - 1, PAGE, SECT - 1}

Corrupt ==
    /\ st.pc = "rs_prog"
    /\ ~(st.off < st.want)
    /\ st.faults < MaxFaults
    /\ \E i \in FaultOffsets :
          LET a == Wrap32(st.base + i)
          IN  /\ i < st.want
              /\ a \in DOMAIN mem
              /\ mem' = [mem EXCEPT ![a] = IF mem[a] % 2 = 0 THEN mem[a] + 1
                                                            ELSE mem[a] - 1]
              /\ st' = [st EXCEPT !.faults = st.faults + 1, !.fault_at = a]
    /\ UNCHANGED <<dev, bus, inp>>

----------------------------------------------------------------------------
(* Calls of jedec_restore_stream *)

Chips ==
    { [use_4byte_addr |-> FALSE, read_cmd |-> 3,  page_size |-> PAGE, sector_size |-> SECT],
      [use_4byte_addr |-> TRUE,  read_cmd |-> 11, page_size |-> 0,   sector_size |-> 0] }

OptsGiven ==
    { [verify_after_write |-> v, skip_erase_when_all_ff |-> e,
       skip_prog_when_all_ff |-> p, program_chunk |-> PAGE, erase_gran |-> SECT] :
          v \in BOOLEAN, e \in BOOLEAN, p \in BOOLEAN }
    \cup
    { [verify_after_write |-> v, skip_erase_when_all_ff |-> FALSE,
       skip_prog_when_all_ff |-> FALSE, program_chunk |-> PAGE,
       erase_gran |-> 2 * SECT] : v \in BOOLEAN }

\* <<offset, len>> of the ranges restored: aligned, unaligned, empty, one
\* whose end wraps round the 32-bit address space, and an unaligned one of
\* two blocks
Ranges ==
    { <<0, MemBytes>>, <<0, SECT>>, <<SECT, SECT>>, <<0, SECT + 1>>,
      <<1, SECT>>, <<PAGE, SECT>>, <<0, 0>>, <<U32 - SECT, 2 * SECT>>,
      <<1, 2 * SECT - 1>> }

st0 ==
    [pc |-> "entry", ret |-> "none", ok |-> FALSE, why |-> "none",
     after_unp |-> "none", opts |-> NoOpts, sector |-> 0, end_ |-> 0,
     base |-> 0, want |-> 0, off |-> 0, pulls |-> << >>,
     mm |-> [base |-> 0, bad |-> 0, wrote |-> 0, read |-> 0],
     sr1_before |-> 0, sr2_before |-> 0, bp_cleared |-> FALSE,
     unp_ret |-> FALSE, unprotected |-> FALSE, faults |-> 0, fault_at |-> 0]

StreamInputs ==
    { [entry |-> "stream", has_src |-> TRUE, chip |-> c, opts |-> o,
       offset |-> r[1], len |-> r[2], img |-> g] :
          c \in Chips, o \in OptsGiven \cup {NoOpts}, r \in Ranges, g \in ImgPats }
    \cup
    { [entry |-> "stream", has_src |-> FALSE, chip |-> c, opts |-> NoOpts,
       offset |-> 0, len |-> SECT, img |-> "data"] : c \in Chips }

----------------------------------------------------------------------------
(* jedec_probe, as far as the restore entry points depend on it *)

\* capacity_from_id: the capacity byte as log2 of the size in bytes
CapacityFromId(cap_id) == IF cap_id >= 32 THEN 0 ELSE 2^cap_id

MiB16 == 16 * 1024 * 1024

\* out->use_4byte_addr = (out->total_bytes > 16u*1024u*1024u)
Use4ByteFrom16MiB(total) == total >= MiB16

Use4Byte(total) == total > MiB16

ProbeChip(cap_id, sfdp) ==
    LET c     == CapacityFromId(cap_id)
        total == IF c = 0 THEN 512 * 1024 ELSE c
    IN  [capacity_id    |-> cap_id,
         has_sfdp       |-> sfdp,
         total_bytes    |-> total,
         use_4byte_addr |-> Use4Byte(total),
         page_size      |-> PAGE,
         sector_size    |-> SECT,
         read_cmd       |-> IF sfdp THEN 11 ELSE 3]

\* the frames of jedec_probe: JEDEC ID, SFDP header, EN4B for a large part
ProbeFrames(chip) ==
    << Frame(<<159>>, 3), Frame(<<90, 0, 0, 0, 0>>, 16) >>
    \o (IF chip.use_4byte_addr THEN << Frame(<<183>>, 0) >> ELSE << >>)

----------------------------------------------------------------------------
(* The image file on the SD card *)

\* bytes f_read delivers for a request of n at position pos
FRead(pos, n) == Min(n, IF inp.fsize > pos THEN inp.fsize - pos ELSE 0)

\* x & ~(m - 1)
AlignDown(x, m) == x - BitAnd(x, m - 1)

----------------------------------------------------------------------------
(* universal_restore_from_sd *)

\* a variant without the comparison of the file size with the chip size
UrRefusalNoSizeCheck(chip) ==
    IF chip.total_bytes = 0 THEN "ProbeFailed"
    ELSE IF chip.total_bytes > MiB16 THEN "TooLarge"
    ELSE IF ~inp.fopen_ok THEN "OpenFailed"
    ELSE "none"

\* the early returns after the probe: size 0, above 16 MiB, f_open failed,
\* file size other than the chip size; "none" when the restore goes ahead
UrRefusal(chip) ==
    IF chip.total_bytes = 0 THEN "ProbeFailed"
    ELSE IF chip.total_bytes > MiB16 THEN "TooLarge"
    ELSE IF ~inp.fopen_ok THEN "OpenFailed"
    ELSE IF inp.fsize # chip.total_bytes THEN "SizeMismatch"
    ELSE "none"

\* argument check, probe, the size limits, f_open and the size comparison
UrEntry ==
    /\ inp.entry = "universal"
    /\ st.pc = "entry"
    /\ IF ~inp.args_ok
       THEN /\ st' = Return(FALSE, "BadArgs")
            /\ UNCHANGED <<bus, dev>>
       ELSE LET chip == ProbeChip(inp.cap_id, inp.sfdp)
            IN  /\ Send(ProbeFrames(chip))
                /\ dev' = [dev EXCEPT !.mode4 = chip.use_4byte_addr]
                /\ st' = IF UrRefusal(chip) # "none"
                         THEN Return(FALSE, UrRefusal(chip))
                         ELSE [st EXCEPT !.pc = "ur_unprot",
                                         !.total = chip.total_bytes]
    /\ UNCHANGED <<mem, inp>>

\* rd_sr1, then clear_bp_sr1 up to its wait_busy: EWSR, WREN, WRSR 0x00
UrClearBp ==
    /\ st.pc = "ur_unprot"
    /\ Send(<< Frame(<<5>>, 1), Frame(<<80>>, 0), Frame(<<6>>, 0), Frame(<<1, 0>>, 0) >>)
    /\ dev' = DevWriteSR(dev, 0, dev.sr2)
    /\ st' = [st EXCEPT !.pc = "wait", !.ret = "ur_gul"]
    /\ UNCHANGED <<mem, inp>>

\* the rest of clear_bp_sr1, global unlock 0x98, and the second rd_sr1
UrGlobalUnlock ==
    /\ st.pc = "ur_gul"
    /\ Send(<< Frame(<<152>>, 0), Frame(<<5>>, 1) >>)
    /\ st' = [st EXCEPT !.pc = "ur_sector", !.unprotected = TRUE, !.off = 0]
    /\ UNCHANGED <<mem, dev, inp>>

\* while (off < total): erase_4k(bus, off & ~(SECT - 1)), or, the loop over,
\* f_lseek(&f, 0) and on to the verify pass
UrSector ==
    /\ st.pc = "ur_sector"
    /\ IF st.off < st.total
       THEN LET hdr == << 32 >> \o AddrBytes(FALSE, AlignDown(st.off, SECT))
            IN  /\ Send(<< Frame(<<6>>, 0), Frame(hdr, 0) >>)
                /\ mem' = DevErase4k(mem, dev, DevAddr(dev, hdr))
                /\ dev' = [dev EXCEPT !.wip = TRUE]
                /\ st' = [st EXCEPT !.pc = "wait", !.ret = "ur_page",
                                    !.sec_base = st.off, !.p = 0]
       ELSE /\ st' = [st EXCEPT !.pc = "ur_verify", !.fpos = 0, !.off = 0]
            /\ UNCHANGED <<mem, dev, bus>>
    /\ UNCHANGED inp

\* one round of the page loop of a sector: f_read of a page and
\* page_program, or the end of the loop and off = sec_base + SECT
UrPage ==
    /\ st.pc = "ur_page"
    /\ LET addr == AlignDown(st.off, SECT) + st.p
           br   == FRead(st.fpos, PAGE)
           next == [st EXCEPT !.pc = "ur_sector",
                              !.off = Wrap32(st.sec_base + SECT)]
       IN  IF st.p < SECT /\ ~(addr >= st.total)
           THEN \E fr_ok \in BOOLEAN :
                  IF ~fr_ok
                  THEN /\ st' = Return(FALSE, "ReadError")
                       /\ UNCHANGED <<mem, dev, bus>>
                  ELSE IF br = 0
                  THEN /\ st' = next
                       /\ UNCHANGED <<mem, dev, bus>>
                  ELSE LET hdr  == << 2 >> \o AddrBytes(FALSE, addr)
                           data == [i \in 0 .. br - 1 |-> ImgByte(inp.img, st.fpos + i)]
                       IN  /\ Send(<< Frame(<<6>>, 0), Frame(hdr, br) >>)
                           /\ mem' = DevProgram(mem, dev, DevAddr(dev, hdr), data, br)
                           /\ dev' = [dev EXCEPT !.wip = TRUE]
                           /\ st' = [st EXCEPT !.pc = "wait", !.ret = "ur_page",
                                               !.fpos = st.fpos + br,
                                               !.p = IF br < PAGE THEN SECT
                                                     ELSE st.p + PAGE]
           ELSE /\ st' = next
                /\ UNCHANGED <<mem, dev, bus>>
    /\ UNCHANGED inp

\* a variant that compares the first byte of a page only
UrDiffFirstByteOnly(addr, fpos, want) ==
    {i \in {0} : DevRead(mem, addr + i) # ImgByte(inp.img, fpos + i)}

\* for (i = 0; i < want; i++) if (rd_buf[i] != sd_buf[i]): the indices at
\* which the page read from flash differs from the page of the file
UrDiff(addr, fpos, want) ==
    {i \in 0 .. want - 1 : DevRead(mem, addr + i) # ImgByte(inp.img, fpos + i)}

\* one round of the verify pass: a page from the file against read_03, the
\* first differing byte reported; or the end of the pass
UrVerifyPage ==
    /\ st.pc = "ur_verify"
    /\ IF ~inp.verify \/ ~(st.off < st.total)
       THEN /\ st' = Return(TRUE, "Ok")
            /\ UNCHANGED bus
       ELSE LET want == Min(PAGE, st.total - st.off)
                br   == FRead(st.fpos, want)
                hdr  == << 3 >> \o AddrBytes(FALSE, st.off)
                diff == UrDiff(DevAddr(dev, hdr), st.fpos, want)
            IN  \E fr_ok \in BOOLEAN :
                  IF ~fr_ok \/ br # want
                  THEN /\ st' = Return(FALSE, "ReadError")
                       /\ UNCHANGED bus
                  ELSE /\ Send(<< Frame(hdr, want) >>)
                       /\ IF diff # {}
                          THEN LET i == FirstBad(diff)
                               IN  st' = [st EXCEPT !.pc = "done", !.ok = FALSE,
                                            !.why = "VerifyMismatch",
                                            !.mm = [base  |-> st.off,
                                                    bad   |-> st.off + i,
                                                    wrote |-> ImgByte(inp.img, st.fpos + i),
                                                    read  |-> DevRead(mem, DevAddr(dev, hdr) + i)]]
                          ELSE st' = [st EXCEPT !.off = st.off + want,
                                                !.fpos = st.fpos + br]
    /\ UNCHANGED <<mem, dev, inp>>

ur0 ==
    [pc |-> "entry", ret |-> "none", ok |-> FALSE, why |-> "none",
     unprotected |-> FALSE, total |-> 0, off |-> 0, sec_base |-> 0, p |-> 0,
     fpos |-> 0, mm |-> [base |-> 0, bad |-> 0, wrote |-> 0, read |-> 0]]

\* the parts probed: one sector, two sectors, and a 32 MiB part
UnivInputs ==
    { [entry |-> "universal", args_ok |-> TRUE, cap_id |-> c, sfdp |-> FALSE,
       fopen_ok |-> o, fsize |-> z, verify |-> v, img |-> g] :
          c \in {SectShift, SectShift + 1, 25}, o \in BOOLEAN,
          z \in {SECT, 2 * SECT}, v \in BOOLEAN, g \in ImgPats }
    \cup
    { [entry |-> "universal", args_ok |-> FALSE, cap_id |-> SectShift,
       sfdp |-> TRUE, fopen_ok |-> TRUE, fsize |-> SECT, verify |-> TRUE,
       img |-> "data"] }

----------------------------------------------------------------------------
(* flash_restore_from_sd_with_size: the first version (3-byte addresses, 4 KiB
   erases) and the second (4-byte addressing above 16 MiB, flash_smart_erase) *)

SzUse4 == inp.variant = "v2" /\ inp.known_size > MiB16

\* flash_exit_4byte_mode on the way out of the second version
SzLeave(ok, why) ==
    /\ st' = Return(ok, why)
    /\ IF SzUse4
       THEN /\ Send(<< Frame(<<233>>, 0) >>)
            /\ dev' = [dev EXCEPT !.mode4 = FALSE]
       ELSE UNCHANGED <<bus, dev>>

\* flash_enter_4byte_mode where needed, f_open, restore_size
SzEntry ==
    /\ inp.entry = "sized"
    /\ st.pc = "entry"
    /\ LET en4b == IF SzUse4 THEN << Frame(<<183>>, 0) >> ELSE << >>
       IN  IF ~inp.fopen_ok
           THEN /\ st' = Return(FALSE, "OpenFailed")
                /\ Send(en4b \o (IF SzUse4 THEN << Frame(<<233>>, 0) >> ELSE << >>))
                /\ dev' = [dev EXCEPT !.mode4 = FALSE]
           ELSE /\ st' = [st EXCEPT !.pc = "sz_unprot",
                                    !.restore_size = Min(inp.fsize, inp.known_size)]
                /\ Send(en4b)
                /\ dev' = [dev EXCEPT !.mode4 = SzUse4]
    /\ UNCHANGED <<mem, inp>>

\* flash_global_unprotect up to its flash_wait_busy: WREN, WRSR 0x00 0x00
SzUnprotect ==
    /\ st.pc = "sz_unprot"
    /\ Send(<< Frame(<<6>>, 0), Frame(<<1, 0, 0>>, 0) >>)
    /\ dev' = DevWriteSR(dev, 0, 0)
    /\ st' = [st EXCEPT !.pc = "wait", !.ret = "sz_unprot_done"]
    /\ UNCHANGED <<mem, inp>>

\* flash_global_unprotect has returned; the erase step starts at address 0
SzUnprotected ==
    /\ st.pc = "sz_unprot_done"
    /\ st' = [st EXCEPT !.pc = "sz_erase", !.unprotected = TRUE, !.addr = 0]
    /\ UNCHANGED <<mem, dev, bus, inp>>

\* one erase command: the 4 KiB loop of the first version, or flash_smart_erase
\* (chip erase for a full image, else 64 KiB blocks with a 4 KiB remainder);
\* the erase over, f_lseek(&file, 0) and on to programming
SzErase ==
    /\ st.pc = "sz_erase"
    /\ IF inp.variant = "v2" /\ st.restore_size = inp.known_size
       THEN /\ Send(<< Frame(<<6>>, 0), Frame(<<199>>, 0) >>)
            /\ mem' = DevChipErase(mem, dev)
            /\ dev' = [dev EXCEPT !.wip = TRUE]
            /\ st' = [st EXCEPT !.pc = "wait", !.ret = "sz_prog",
                                !.addr = 0, !.fpos = 0]
       ELSE IF st.addr < st.restore_size
       THEN IF /\ inp.variant = "v2"
               /\ st.restore_size - st.addr >= BLOCK
               /\ st.addr % BLOCK = 0
            THEN LET hdr == << IF SzUse4 THEN 220 ELSE 216 >>
                                \o AddrBytes(SzUse4, st.addr)
                 IN  /\ Send(<< Frame(<<6>>, 0), Frame(hdr, 0) >>)
                     /\ mem' = DevErase64k(mem, dev, DevAddr(dev, hdr))
                     /\ dev' = [dev EXCEPT !.wip = TRUE]
                     /\ st' = [st EXCEPT !.pc = "wait", !.ret = "sz_erase",
                                         !.addr = Wrap32(st.addr + BLOCK)]
            ELSE LET hdr == << IF SzUse4 THEN 33 ELSE 32 >>
                                \o AddrBytes(SzUse4, st.addr)
                 IN  /\ Send(<< Frame(<<6>>, 0), Frame(hdr, 0) >>)
                     /\ mem' = DevErase4k(mem, dev, DevAddr(dev, hdr))
                     /\ dev' = [dev EXCEPT !.wip = TRUE]
                     /\ st' = [st EXCEPT !.pc = "wait", !.ret = "sz_erase",
                                         !.addr = Wrap32(st.addr + SECT)]
       ELSE /\ st' = [st EXCEPT !.pc = "sz_prog", !.addr = 0, !.fpos = 0]
            /\ UNCHANGED <<mem, dev, bus>>
    /\ UNCHANGED inp

\* one round of the programming loop: a page from the file, padded with
\* 0xFF, programmed whole; or the end of the restore
SzProg ==
    /\ st.pc = "sz_prog"
    /\ LET bytes_read == FRead(st.fpos, PAGE)
       IN  IF st.addr < st.restore_size
           THEN \E fr_ok \in BOOLEAN :
                  IF ~fr_ok
                  THEN SzLeave(FALSE, "ReadError") /\ UNCHANGED mem
                  ELSE IF bytes_read = 0
                  THEN SzLeave(TRUE, "Ok") /\ UNCHANGED mem
                  ELSE LET hdr  == << IF SzUse4 THEN 18 ELSE 2 >>
                                      \o AddrBytes(SzUse4, st.addr)
                           page == [i \in 0 .. PAGE - 1 |->
                                      IF i < bytes_read
                                      THEN ImgByte(inp.img, st.fpos + i) ELSE FF]
                       IN  /\ Send(<< Frame(<<6>>, 0), Frame(hdr, PAGE) >>)
                           /\ mem' = DevProgram(mem, dev, DevAddr(dev, hdr), page, PAGE)
                           /\ dev' = [dev EXCEPT !.wip = TRUE]
                           /\ st' = [st EXCEPT !.pc = "wait", !.ret = "sz_prog",
                                               !.addr = Wrap32(st.addr + PAGE),
                                               !.fpos = st.fpos + bytes_read]
           ELSE SzLeave(TRUE, "Ok") /\ UNCHANGED mem
    /\ UNCHANGED inp

sz0 ==
    [pc |-> "entry", ret |-> "none", ok |-> FALSE, why |-> "none",
     unprotected |-> FALSE, restore_size |-> 0, addr |-> 0, fpos |-> 0]

\* a part of one or two sectors or of 32 MiB; a file of a sector, a sector
\* and a byte, two sectors, or a 64 KiB block and a sector
SizedInputs ==
    { [entry |-> "sized", variant |-> v, known_size |-> k, fopen_ok |-> o,
       fsize |-> z, img |-> g] :
          v \in {"v1", "v2"}, k \in {SECT, 2 * SECT, 2^25}, o \in BOOLEAN,
          z \in {SECT, SECT + 1, 2 * SECT}, g \in ImgPats }
    \cup
    { [entry |-> "sized", variant |-> "v2", known_size |-> 2^25,
       fopen_ok |-> TRUE, fsize |-> BLOCK + SECT, img |-> "data"] }

----------------------------------------------------------------------------
(* The restore entry points together: one call of one of them per behaviour *)

Init ==
    /\ \/ /\ inp \in StreamInputs
          /\ st = st0
          /\ \E k \in DevKinds : dev = DevInit(k, inp.chip.use_4byte_addr)
       \/ /\ inp \in UnivInputs
          /\ st = ur0
          /\ \E k \in DevKinds : dev = DevInit(k, FALSE)
       \/ /\ inp \in SizedInputs
          /\ st = sz0
          /\ \E k \in DevKinds : dev = DevInit(k, FALSE)
    /\ \E mp \in MemPats : mem = MemInit(mp)
    /\ bus = << >>

Next ==
    \/ RsEntry
    \/ UnpRead
    \/ UnpGlobalUnlock
    \/ UnpWriteSR
    \/ UnpReadback
    \/ RsPull
    \/ RsErase
    \/ RsProgPage
    \/ RsVerify
    \/ Corrupt
    \/ UrEntry
    \/ UrClearBp
    \/ UrGlobalUnlock
    \/ UrSector
    \/ UrPage
    \/ UrVerifyPage
    \/ SzEntry
    \/ SzUnprotect
    \/ SzUnprotected
    \/ SzErase
    \/ SzProg
    \/ WaitBusy

Spec == Init /\ [][Next]_vars

----------------------------------------------------------------------------
(* jedec_backup_stream *)

\* if (!sink || chunk == 0) return false;  malloc(chunk), which may fail
BkEntry ==
    /\ inp.entry = "backup"
    /\ st.pc = "entry"
    /\ IF ~inp.has_sink \/ inp.chunk = 0
       THEN st' = Return(FALSE, "BadArgs")
       ELSE \E alloc_ok \in BOOLEAN :
              IF ~alloc_ok
              THEN st' = Return(FALSE, "NoMemory")
              ELSE st' = [st EXCEPT !.pc = "bk_loop", !.a = inp.offset,
                                   !.end_ = Wrap32(inp.offset + inp.len)]
    /\ UNCHANGED <<mem, dev, bus, inp>>

\* size_t n = chunk; if (a + n > end) n = end - a;
ChunkLen(a, end, chunk) ==
    IF Wrap32(a + chunk) > end THEN Wrap32(end - a) ELSE chunk

\* loop test and jedec_read_chunk(chip, a, buf, n)
BkRead ==
    /\ st.pc = "bk_loop"
    /\ IF ~(st.a < st.end_)
       THEN /\ st' = Return(TRUE, "Ok")
            /\ UNCHANGED bus
       ELSE LET n   == ChunkLen(st.a, st.end_, inp.chunk)
                hdr == ReadHdr(inp.chip, st.a)
            IN  /\ Send(<< Frame(hdr, n) >>)
                /\ st' = [st EXCEPT !.pc = "bk_sink", !.n = n,
                                    !.buf = [i \in 1 .. n |->
                                        DevRead(mem, DevAddr(dev, hdr) + i - 1)]]
    /\ UNCHANGED <<mem, dev, inp>>

\* if (!sink(buf, n, a, user)) return false;  a += n;
SinkVerdictIgnored(accepted) == TRUE

SinkVerdict(accepted) == accepted

BkSink ==
    /\ st.pc = "bk_sink"
    /\ \E accepted \in BOOLEAN :
          LET call == [data |-> st.buf, n |-> st.n, offset |-> st.a,
                       accepted |-> accepted]
              s1   == [st EXCEPT !.sunk = Append(st.sunk, call)]
          IN  IF ~SinkVerdict(accepted)
              THEN st' = [s1 EXCEPT !.pc = "done", !.ok = FALSE,
                                    !.why = "SinkRejected"]
              ELSE st' = [s1 EXCEPT !.pc = "bk_loop",
                                    !.a = Wrap32(st.a + st.n)]
    /\ UNCHANGED <<mem, dev, bus, inp>>

\* chunk sizes asked for: none, a byte, a page, one that divides nothing,
\* a sector, and one larger than the device
Chunks == {0, 1, PAGE, 3, SECT, 2 * MemBytes}

BackupInputs ==
    { [entry |-> "backup", has_sink |-> TRUE, chip |-> c, chunk |-> k,
       offset |-> r[1], len |-> r[2]] :
          c \in Chips, k \in Chunks, r \in Ranges }
    \cup
    { [entry |-> "backup", has_sink |-> FALSE, chip |-> c, chunk |-> SECT,
       offset |-> 0, len |-> SECT] : c \in Chips }

bk0 ==
    [pc |-> "entry", ok |-> FALSE, why |-> "none", a |-> 0, end_ |-> 0,
     n |-> 0, buf |-> << >>, sunk |-> << >>]

InitBackup ==
    /\ inp \in BackupInputs
    /\ \E mp \in {"ramp", "old"} : mem = MemInit(mp)
    /\ dev = DevInit("open", inp.chip.use_4byte_addr)
    /\ bus = << >>
    /\ st = bk0

NextBackup ==
    \/ BkEntry
    \/ BkRead
    \/ BkSink

SpecBackup == InitBackup /\ [][NextBackup]_vars

----------------------------------------------------------------------------
(* The command helpers called on their own, with any address *)

AddrSamples ==
    {0, 1, 255, 256, 65535, 65536, 16777215, 16777216, 305419896, U32 - 1}

CodecChips ==
    { [use_4byte_addr |-> u, read_cmd |-> r, page_size |-> PAGE, sector_size |-> SECT] :
          u \in BOOLEAN, r \in {3, 11} }

Called(kind, addr, at) ==
    st' = [st EXCEPT !.calls = Append(st.calls,
                                      [kind |-> kind, addr |-> addr, at |-> at])]

\* jedec_read_chunk(chip, addr, buf, len)
AcRead ==
    /\ st.pc = "codec"
    /\ Len(st.calls) < MaxCalls
    /\ \E addr \in AddrSamples :
          /\ Send(<< Frame(ReadHdr(inp.chip, addr), PAGE) >>)
          /\ Called("read", addr, Len(bus) + 1)
    /\ UNCHANGED <<mem, dev, inp>>

\* erase_4k(chip, addr): WREN, then the erase frame
AcErase ==
    /\ st.pc = "codec"
    /\ Len(st.calls) < MaxCalls
    /\ \E addr \in AddrSamples :
          LET hdr == EraseHdr(inp.chip, addr)
          IN  /\ Send(<< Frame(<<6>>, 0), Frame(hdr, 0) >>)
              /\ mem' = DevErase4k(mem, dev, DevAddr(dev, hdr))
              /\ Called("erase", addr, Len(bus) + 2)
    /\ UNCHANGED <<dev, inp>>

\* prog_page(chip, addr, data, len): WREN, then the program frame
AcProg ==
    /\ st.pc = "codec"
    /\ Len(st.calls) < MaxCalls
    /\ \E addr \in AddrSamples :
          LET hdr == ProgHdr(inp.chip, addr)
          IN  /\ Send(<< Frame(<<6>>, 0), Frame(hdr, 1) >>)
              /\ mem' = DevProgram(mem, dev, DevAddr(dev, hdr), [i \in {0} |-> 90], 1)
              /\ Called("prog", addr, Len(bus) + 2)
    /\ UNCHANGED <<dev, inp>>

InitAddr ==
    /\ inp \in { [entry |-> "codec", chip |-> c] : c \in CodecChips }
    /\ mem = MemInit("erased")
    /\ dev = DevInit("open", inp.chip.use_4byte_addr)
    /\ bus = << >>
    /\ st = [pc |-> "codec", calls |-> << >>]

NextAddr ==
    \/ AcRead
    \/ AcErase
    \/ AcProg

SpecAddr == InitAddr /\ [][NextAddr]_vars

----------------------------------------------------------------------------
(* Reading the bus log *)

Frames == {bus[i] : i \in 1 .. Len(bus)}

\* erase opcodes: 4K 0x20/0x21, 32K 0x52, 64K 0xD8/0xDC, chip 0xC7
IsErase(f) == f.hdr[1] \in {32, 33, 82, 216, 220, 199}
\* page program 0x02/0x12
IsProg(f) == f.hdr[1] \in {2, 18}
\* fast read 0x0B/0x0C and read 0x03
IsRead(f) == f.hdr[1] \in {3, 11, 12}
\* WRSR 0x01
IsWrsr(f) == f.hdr[1] = 1

FrameAddr(f) == DevAddr(dev, f.hdr)

----------------------------------------------------------------------------
(* Properties of jedec_restore_stream *)

StreamDone == inp.entry = "stream" /\ st.pc = "done"

InForce == EffectiveOpts(inp.chip, inp.opts)

\* the range lies inside the device and does not wrap
RangeInFlash == inp.offset + inp.len <= MemBytes

\* flash reads back as the image over the whole range
FlashIsImage ==
    \A i \in 0 .. inp.len - 1 :
        DevRead(mem, Wrap32(inp.offset + i)) = ImgByte(inp.img, i)

\* C1: a restore with default options that reports success leaves every
\* byte of the range equal to the image, whatever the flash held before
C1_RoundTrip ==
    (StreamDone /\ st.ok /\ inp.opts = NoOpts /\ RangeInFlash) => FlashIsImage

\* the block just written is about to be read back and compared
AtVerify ==
    /\ inp.entry = "stream"
    /\ st.pc = "rs_prog"
    /\ ~(st.off < st.want)
    /\ st.opts.verify_after_write

\* C2: with verify_after_write, when exactly one byte of the block just
\* programmed reads back different from the source data, the restore fails
\* and the mismatch it reports is the device address of that byte
C2_VerifyReportsExactByte ==
    [][ (AtVerify /\ Cardinality(Mismatches) = 1 /\ st'.pc # "rs_prog")
        => /\ st'.pc = "done"
           /\ ~st'.ok
           /\ st'.why = "VerifyMismatch"
           /\ st'.mm.base + st'.mm.bad \in {st.base + i : i \in Mismatches}
           /\ st'.mm.wrote = Buf(st'.mm.bad)
           /\ st'.mm.read = VBuf(st'.mm.bad) ]_vars

C2_Witness ==
    /\ StreamDone
    /\ st.why = "VerifyMismatch"
    /\ st.faults = 1
    /\ Cardinality(Mismatches) = 1
    /\ st.mm.base + st.mm.bad = st.fault_at
    /\ st.mm.bad > 0

\* C3: once a verify mismatch is detected the restore has ended in failure:
\* no further frame goes out on the bus and the source is not pulled again
C3_MismatchAborts ==
    /\ []((inp.entry = "stream" /\ st.why = "VerifyMismatch")
            => (st.pc = "done" /\ ~st.ok))
    /\ [][ (inp.entry = "stream" /\ st.why = "VerifyMismatch")
            => (bus' = bus /\ mem' = mem /\ st'.pulls = st.pulls) ]_vars

\* a mismatch in a block that is not the last one of the range
C3_Witness ==
    /\ StreamDone
    /\ st.why = "VerifyMismatch"
    /\ st.base + st.sector < st.end_
    /\ IsRead(bus[Len(bus)])

\* the block of the range that holds address a, and its source data
BlockBase(a) == inp.offset + ((a - inp.offset) \div InForce.erase_gran) * InForce.erase_gran

BlockAllFF(b) ==
    \A i \in b .. Min(b + InForce.erase_gran, inp.offset + inp.len) - 1 :
        ImgByte(inp.img, i - inp.offset) = FF

\* C4: with skip_erase_when_all_ff no erase and no page program is
\* addressed inside a block whose source data is all 0xFF
C4_BlankBlocksUntouched ==
    (inp.entry = "stream" /\ InForce.skip_erase_when_all_ff)
    => \A f \in Frames :
          (IsErase(f) \/ IsProg(f)) => ~BlockAllFF(BlockBase(FrameAddr(f)))

\* a blank block was pulled and skipped, another block was programmed
C4_Witness ==
    /\ StreamDone
    /\ st.ok
    /\ InForce.skip_erase_when_all_ff
    /\ \E i \in 1 .. Len(st.pulls) : BlockAllFF(st.pulls[i].base)
    /\ \E f \in Frames : IsProg(f)

\* C5: a source pull that fails or comes back short ends the restore in
\* failure, with no erase or page program for that block or a later one
C5_ShortPullAborts ==
    inp.entry = "stream"
    => \A i \in 1 .. Len(st.pulls) :
          (~st.pulls[i].ret \/ st.pulls[i].got # st.pulls[i].want)
          => /\ i = Len(st.pulls)
             /\ st.pc = "done"
             /\ ~st.ok
             /\ \A f \in Frames :
                   (IsErase(f) \/ IsProg(f)) => FrameAddr(f) < st.pulls[i].base

\* the pull of the second block comes back short after the first block
\* was erased and programmed
C5_Witness ==
    /\ StreamDone
    /\ Len(st.pulls) = 2
    /\ st.pulls[2].ret
    /\ st.pulls[2].got < st.pulls[2].want
    /\ \E f \in Frames : IsProg(f)

----------------------------------------------------------------------------
(* Properties of jedec_backup_stream *)

BackupDone == inp.entry = "backup" /\ st.pc = "done"

ReadFrames == SelectSeq(bus, IsRead)

\* C6: once the sink returns false for a chunk the backup has returned
\* failure: that chunk is the last one read and the last one sunk
C6_SinkRejectAborts ==
    inp.entry = "backup"
    => \A i \in 1 .. Len(st.sunk) :
          ~st.sunk[i].accepted
          => /\ i = Len(st.sunk)
             /\ st.pc = "done"
             /\ ~st.ok
             /\ Len(ReadFrames) = i

\* the sink rejects the second chunk of a range of more than two chunks
C6_Witness ==
    /\ BackupDone
    /\ Len(st.sunk) = 2
    /\ ~st.sunk[2].accepted
    /\ st.sunk[2].offset + st.sunk[2].n < st.end_

RECURSIVE SumLen(_)
SumLen(calls) ==
    IF calls = << >> THEN 0 ELSE calls[1].n + SumLen(Tail(calls))

\* C7: with a sink that accepts everything and the chunk buffer allocated,
\* for every offset, len and chunk > 0 the sink sees chunks that start at offset, follow one another
\* without gap or overlap, are each 1..chunk bytes long, add up to len and
\* carry the flash contents of their addresses; the backup returns success
C7_BackupCoversRange ==
    (BackupDone /\ inp.has_sink /\ inp.chunk > 0 /\ st.why # "NoMemory"
        /\ \A i \in 1 .. Len(st.sunk) : st.sunk[i].accepted)
    => /\ st.ok
       /\ SumLen(st.sunk) = inp.len
       /\ \A i \in 1 .. Len(st.sunk) :
             /\ st.sunk[i].n \in 1 .. inp.chunk
             /\ st.sunk[i].offset =
                   inp.offset + SumLen(SubSeq(st.sunk, 1, i - 1))
             /\ \A k \in 1 .. st.sunk[i].n :
                   st.sunk[i].data[k] = DevRead(mem, st.sunk[i].offset + k - 1)

\* the same for the ranges that lie inside the 32-bit address space
C7_InRange ==
    (inp.entry = "backup" /\ inp.offset + inp.len + inp.chunk <= U32)
    => C7_BackupCoversRange

----------------------------------------------------------------------------
(* Properties of the command frames *)

\* the bytes of a frame between the opcode and the fast-read dummy byte
FrameAddrBytes(f) ==
    SubSeq(f.hdr, 2, Len(f.hdr) - (IF f.hdr[1] = 11 THEN 1 ELSE 0))

RECURSIVE Pow256(_)
Pow256(n) == IF n = 0 THEN 1 ELSE 256 * Pow256(n - 1)

\* C10: every read, page-program and erase frame carries exactly 3
\* big-endian address bytes when use_4byte_addr is false and exactly 4 when
\* it is true, whatever the address
C10_AddressWidth ==
    inp.entry = "codec"
    => \A c \in {st.calls[i] : i \in 1 .. Len(st.calls)} :
          LET ab == FrameAddrBytes(bus[c.at])
              n  == IF inp.chip.use_4byte_addr THEN 4 ELSE 3
          IN  /\ Len(ab) = n
              /\ \A k \in 1 .. n : ab[k] = (c.addr \div Pow256(n - k)) % 256

\* an erase of an address above 16 MiB in 4-byte mode, and a fast read
C10_Witness ==
    /\ inp.entry = "codec"
    /\ inp.chip.use_4byte_addr
    /\ Len(st.calls) = 2
    /\ st.calls[1].kind = "erase"
    /\ st.calls[1].addr = 305419896
    /\ bus[st.calls[1].at].hdr = <<32, 18, 52, 86, 120>>
    /\ st.calls[2].kind = "read"
    /\ bus[st.calls[2].at].hdr[1] = 11

\* C9: in each restore entry point (jedec_restore_stream,
\* universal_restore_from_sd, flash_restore_from_sd_with_size) every erase and
\* page-program frame goes out after the unprotect sequence has run to its
\* end, its status-register write on the bus before the frame
C9_UnprotectFirst ==
    \A k \in 1 .. Len(bus) :
        (IsErase(bus[k]) \/ IsProg(bus[k]))
            => /\ st.unprotected
               /\ \E j \in 1 .. k - 1 : IsWrsr(bus[j])

\* a restore that ran to the end, having erased and programmed
C9_Witness ==
    /\ st.pc = "done"
    /\ st.ok
    /\ st.unprotected
    /\ \E k \in 1 .. Len(bus) : IsErase(bus[k])
    /\ \E k \in 1 .. Len(bus) : IsProg(bus[k])

\* C8: every busy-wait is bounded: while the program polls a device whose
\* busy bit never clears, it has a step that takes it out of the wait (the
\* timeout that ends the enclosing operation in failure)
C8_BusyWaitBounded ==
    (st.pc = "wait" /\ dev.stuck) => ENABLED <<WaitBusy>>_vars

----------------------------------------------------------------------------
(* The opcode of a frame against the address mode *)

\* C11: with use_4byte_addr true, a fast read goes out as 0x0C, a page
\* program as 0x12 and an erase as 0x21 or 0xDC, never as the 3-byte-address
\* opcode of the pair (0x0B, 0x02, 0x20, 0xD8)
C11_FourByteOpcodes ==
    (inp.entry = "codec" /\ inp.chip.use_4byte_addr)
    => \A i \in 1 .. Len(st.calls) :
          LET c  == st.calls[i]
              op == bus[c.at].hdr[1]
          IN  /\ (c.kind = "read" /\ inp.chip.read_cmd = 11) => op = 12
              /\ c.kind = "prog" => op = 18
              /\ c.kind = "erase" => op \in {33, 220}

----------------------------------------------------------------------------
(* Probing on its own: jedec_probe, flash_detect_size and the density
   decoding of identify, against a device of any identity *)

\* a 32-bit SFDP dword, bit 31 apart from the low 31 bits
Dword(hi, lo) == [hi |-> hi, lo |-> lo]

\* 128 Mbit as BFPT DWORD-2: the bit count less one, and the exponent form
\* 2^(lo + 1) bits
Mbit128Direct == Dword(FALSE, 134217727)
Mbit128Exp == Dword(TRUE, 26)

DensitySamples ==
    { Dword(FALSE, l) : l \in {4194303, 16777215, 67108863, 134217727, 268435455} }
    \cup { Dword(TRUE, l) : l \in {22, 26, 27, 29, 31, 35} }

\* capacity bytes of the JEDEC ID; 31 is left out, 2^31 being beyond the
\* integers of the checker
CapIds == {0, 5, 15, 16, 20, 23, 24, 25, 27, 30, 32, 255}

\* the dword at SFDP address 4: minor revision 6, major 1, NPH, 0xFF
SfdpHeaderDword(nph) == Dword(TRUE, 2130706694 + 65536 * nph)

\* flash_detect_size: density dword to bytes
DetectSizeBytes(d) ==
    IF d.hi THEN ((d.lo + 1) + 7) \div 8 ELSE (d.lo + 7) \div 8

\* 1u << n for n >= 32 is undefined: what a build can give
ShiftOutcomes(n) == {0, 1, 2^(n % 32)}

\* identify of picotoflash.c: density_bits from DWORD-2 (0 when left unset)
IdentifyDensityBits(d, shifted) ==
    IF ~d.hi THEN d.lo + 1
    ELSE IF d.lo + 1 >= 32 THEN shifted ELSE 0

\* identify of the other build (part_005)
IdentifyDensityBits5(d) ==
    IF ~d.hi THEN d.lo + 1
    ELSE IF d.lo + 1 < 32 THEN 2^(d.lo + 1) ELSE 0

\* jedec_probe(&chip)
PrJedecProbe ==
    /\ st.pc = "probe"
    /\ LET chip == ProbeChip(inp.cap_id, inp.sfdp)
       IN  /\ Send(ProbeFrames(chip))
           /\ dev' = [dev EXCEPT !.mode4 = chip.use_4byte_addr]
           /\ st' = [st EXCEPT !.pc = "done", !.fn = "jedec_probe",
                               !.ok = TRUE, !.chip = chip]
    /\ UNCHANGED <<mem, inp>>

\* flash_detect_size(): the dword at SFDP address 4 when the signature is
\* there, else the capacity byte when it lies in 0x10..0x1F, else 0
PrDetectSize ==
    /\ st.pc = "probe"
    /\ IF inp.sfdp
       THEN /\ Send(<< Frame(<<90, 0, 0, 0, 0>>, 4), Frame(<<90, 0, 0, 4, 0>>, 4) >>)
            /\ st' = [st EXCEPT !.pc = "done", !.fn = "flash_detect_size",
                        !.size = DetectSizeBytes(SfdpHeaderDword(inp.nph))]
       ELSE /\ Send(<< Frame(<<90, 0, 0, 0, 0>>, 4), Frame(<<159>>, 3) >>)
            /\ st' = [st EXCEPT !.pc = "done", !.fn = "flash_detect_size",
                        !.size = IF inp.cap_id >= 16 /\ inp.cap_id <= 31
                                 THEN 2^inp.cap_id ELSE 0]
    /\ UNCHANGED <<mem, dev, inp>>

\* the three decoders applied to the BFPT DWORD-2 of the device
PrDecodeDensity ==
    /\ st.pc = "probe"
    /\ inp.sfdp
    /\ \E shifted \in ShiftOutcomes(inp.d2.lo + 1) :
          st' = [st EXCEPT !.pc = "done", !.fn = "decode",
                   !.dec = [detect    |-> DetectSizeBytes(inp.d2),
                            identify  |-> IdentifyDensityBits(inp.d2, shifted),
                            identify5 |-> IdentifyDensityBits5(inp.d2)]]
    /\ UNCHANGED <<mem, dev, bus, inp>>

pr0 ==
    [pc |-> "probe", fn |-> "none", ok |-> FALSE, size |-> 0,
     chip |-> [null |-> TRUE],
     dec |-> [detect |-> 0, identify |-> 0, identify5 |-> 0]]

InitProbe ==
    /\ inp \in { [entry |-> "probe", cap_id |-> c, sfdp |-> s, nph |-> n, d2 |-> d] :
                    c \in CapIds, s \in BOOLEAN, n \in {0, 1}, d \in DensitySamples }
    /\ mem = MemInit("erased")
    /\ dev = DevInit("open", FALSE)
    /\ bus = << >>
    /\ st = pr0

NextProbe ==
    \/ PrJedecProbe
    \/ PrDetectSize
    \/ PrDecodeDensity

SpecProbe == InitProbe /\ [][NextProbe]_vars

ProbeDone(fn) == inp.entry = "probe" /\ st.pc = "done" /\ st.fn = fn

HasEn4b == \E k \in 1 .. Len(bus) : bus[k].hdr = <<183>>

\* C12: a probed profile has use_4byte_addr exactly when total_bytes is
\* above 16 MiB, and jedec_probe sends EN4B (0xB7) exactly when it sets it
C12_FourByteFlag ==
    ProbeDone("jedec_probe")
    => /\ st.chip.use_4byte_addr <=> (st.chip.total_bytes > 16777216)
       /\ HasEn4b <=> st.chip.use_4byte_addr
       /\ Cardinality({k \in 1 .. Len(bus) : bus[k].hdr = <<183>>}) <= 1

\* a part of exactly 16 MiB probed: 3-byte addressing, no EN4B
C12_Witness ==
    /\ ProbeDone("jedec_probe")
    /\ st.chip.total_bytes = 16777216
    /\ ~st.chip.use_4byte_addr
    /\ ~HasEn4b

\* C13: with no SFDP signature and a capacity byte outside 0x10..0x1F the
\* probe fails: jedec_probe gives no profile and flash_detect_size no size
C13_UnsupportedCapacityFails ==
    (inp.entry = "probe" /\ st.pc = "done" /\ ~inp.sfdp
        /\ ~(inp.cap_id >= 16 /\ inp.cap_id <= 31))
    => /\ st.fn = "jedec_probe" => ~st.ok
       /\ st.fn = "flash_detect_size" => st.size = 0

\* the spec's conversion of DWORD-2 to bytes: value + 1 bits with bit 31
\* clear, 2^(value + 1) bits with bit 31 set, then (bits + 7) / 8
SpecDensityBytes(d) ==
    IF d.hi THEN (IF d.lo + 1 >= 3 THEN 2^(d.lo + 1 - 3) ELSE 1)
    ELSE (d.lo + 1 + 7) \div 8

\* C14: with the SFDP signature present the size the probe gives is the BFPT
\* DWORD-2 density in bytes, whatever the JEDEC capacity byte
C14_SizeFromSfdp ==
    (inp.entry = "probe" /\ st.pc = "done" /\ inp.sfdp
        /\ (inp.d2.hi => inp.d2.lo < 31))
    => /\ st.fn = "jedec_probe" => st.chip.total_bytes = SpecDensityBytes(inp.d2)
       /\ st.fn = "flash_detect_size" => st.size = SpecDensityBytes(inp.d2)

\* C15: the DWORD-2 of a 128 Mbit part decodes to 16,777,216 bytes
\* (134,217,728 bits) in both encodings, by every decoder
C15_Density128Mbit ==
    (ProbeDone("decode") /\ inp.d2 \in {Mbit128Direct, Mbit128Exp})
    => /\ st.dec.detect = 16777216
       /\ st.dec.identify = 134217728
       /\ st.dec.identify5 = 134217728

----------------------------------------------------------------------------
(* The unprotect step on its own: jedec_try_unprotect, clear_bp_sr1 between
   its two rd_sr1, flash_global_unprotect and erase_flash_unprotect, against
   a device with any protection bits in SR1 and any SR2 *)

\* erase_flash_unprotect up to its wait: RDSR1, RDSR2, new_sr1, 0x50, then
\* flash_wrsr1 and flash_wrsr2, which send WREN and the bare opcode (0x01,
\* 0x31) and drop the value; the device gets no data byte and keeps its
\* registers
EuNewSr1(sr1) == sr1 - BitAnd(sr1, 28)

EuWrite ==
    /\ st.pc = "eu_entry"
    /\ Send(<< Frame(<<5>>, 1), Frame(<<53>>, 1), Frame(<<80>>, 0),
               Frame(<<6>>, 0), Frame(<<1>>, 0),
               Frame(<<6>>, 0), Frame(<<49>>, 0) >>)
    /\ st' = [st EXCEPT !.pc = "eu_wait",
                        !.sr1_before = DevSR1(dev), !.sr2_before = dev.sr2,
                        !.new_sr1 = EuNewSr1(DevSR1(dev))]
    /\ UNCHANGED <<mem, dev, inp>>

\* flash_wait_busy_clear(spi, cs_pin, 50, NULL): ready or timed out, the
\* result is dropped
EuWait ==
    /\ st.pc = "eu_wait"
    /\ \E timed_out \in BOOLEAN :
          /\ timed_out => (dev.wip \/ dev.stuck)
          /\ ~timed_out => ~dev.stuck
          /\ dev' = [dev EXCEPT !.wip = IF timed_out THEN dev.wip ELSE FALSE]
          /\ st' = [st EXCEPT !.pc = "eu_check"]
    /\ UNCHANGED <<mem, bus, inp>>

\* chk1, chk2 read back; the outcome is printed
EuCheck ==
    /\ st.pc = "eu_check"
    /\ Send(<< Frame(<<5>>, 1), Frame(<<53>>, 1) >>)
    /\ st' = [st EXCEPT !.pc = "done", !.unprotected = TRUE,
                        !.bp_cleared = (BitAnd(DevSR1(dev), 28) = 0)]
    /\ UNCHANGED <<mem, dev, inp>>

eu0 ==
    [pc |-> "eu_entry", sr1_before |-> 0, sr2_before |-> 0, new_sr1 |-> 0,
     bp_cleared |-> FALSE, unprotected |-> FALSE]

UnprotectFns ==
    {"jedec_try_unprotect", "clear_bp_sr1", "flash_global_unprotect",
     "erase_flash_unprotect"}

\* SR1 with some of BP0..BP4 and SRP0 set, SR2 with QE (bit 1) and bit 6
Sr1Samples == {0, 4, 28, 124, 128, 156, 252}
Sr2Samples == {0, 2, 64, 66}

InitUnprot ==
    /\ inp \in { [entry |-> "unprotect", fn |-> f, sr1_0 |-> a, sr2_0 |-> b,
                  accepts |-> w, stuck |-> k] :
                    f \in UnprotectFns, a \in Sr1Samples, b \in Sr2Samples,
                    w \in BOOLEAN, k \in BOOLEAN }
    /\ mem = MemInit("old")
    /\ dev = [sr1 |-> inp.sr1_0, sr2 |-> inp.sr2_0, wip |-> FALSE,
              mode4 |-> FALSE, wrsr_ok |-> inp.accepts, stuck |-> inp.stuck]
    /\ bus = << >>
    /\ st = CASE inp.fn = "jedec_try_unprotect" ->
                    [st0 EXCEPT !.pc = "unp_read", !.after_unp = "done"]
              [] inp.fn = "clear_bp_sr1" -> [ur0 EXCEPT !.pc = "ur_unprot"]
              [] inp.fn = "flash_global_unprotect" -> [sz0 EXCEPT !.pc = "sz_unprot"]
              [] inp.fn = "erase_flash_unprotect" -> eu0

NextUnprot ==
    \/ UnpRead
    \/ UnpGlobalUnlock
    \/ UnpWriteSR
    \/ UnpReadback
    \/ UrClearBp
    \/ UrGlobalUnlock
    \/ SzUnprotect
    \/ SzUnprotected
    \/ EuWrite
    \/ EuWait
    \/ EuCheck
    \/ WaitBusy

SpecUnprot == InitUnprot /\ [][NextUnprot]_vars

\* the status writes on the bus: WRSR 0x01 and the SR2 write 0x31
WrsrFrames == {k \in 1 .. Len(bus) : bus[k].hdr[1] = 1}

\* C16: every SR1 value the unprotect step writes is the SR1 it read
\* beforehand with bits 2-7 cleared and bits 0-1 as they were
C16_Sr1Written ==
    inp.entry = "unprotect"
    => \A k \in WrsrFrames :
          /\ Len(bus[k].hdr) >= 2
          /\ bus[k].hdr[2] = inp.sr1_0 % 4

\* C17: what jedec_try_unprotect hands back tells the two outcomes apart:
\* true with the protection bits read back clear, not true with the status
\* write rejected and the bits still set
C17_OutcomeReported ==
    (inp.entry = "unprotect" /\ inp.fn = "jedec_try_unprotect" /\ st.pc = "done")
    => (st.unp_ret <=> st.bp_cleared)

\* C18: every status write that carries an SR2 byte carries the SR2 value
\* the device held when the unprotect step began
C18_Sr2Preserved ==
    inp.entry = "unprotect"
    => \A k \in 1 .. Len(bus) :
          /\ (bus[k].hdr[1] = 1 /\ Len(bus[k].hdr) = 3) => bus[k].hdr[3] = inp.sr2_0
          /\ (bus[k].hdr[1] = 49 /\ Len(bus[k].hdr) = 2) => bus[k].hdr[2] = inp.sr2_0

----------------------------------------------------------------------------
(* read_derive_and_print_50: the read throughput at 50 MHz derived from the
   benchmark captures.  Throughputs are whole numbers of a small unit and a
   derived value is kept as the fraction num / den, so that nothing is
   rounded. *)

MaxCaps == 3

Target50 == 50

\* the transfer sizes of a capture's rows (two of the five of k_read_sizes)
ReadSizes == {1, 2}

\* index of the capture with the highest clock below 50, 0 for none
\* (the code's -1); the first of equals
FindBestBelow(mhz) ==
    LET S == {i \in 1 .. Len(mhz) : mhz[i] < Target50}
    IN  IF S = {} THEN 0
        ELSE CHOOSE i \in S : \A j \in S : mhz[j] < mhz[i] \/ (mhz[j] = mhz[i] /\ i <= j)

\* index of the capture with the lowest clock above 50, 0 for none
FindBestAbove(mhz) ==
    LET S == {i \in 1 .. Len(mhz) : mhz[i] > Target50}
    IN  IF S = {} THEN 0
        ELSE CHOOSE i \in S : \A j \in S : mhz[j] > mhz[i] \/ (mhz[j] = mhz[i] /\ i <= j)

Abs(x) == IF x < 0 THEN 0 - x ELSE x

\* a variant that takes the first capture whatever its clock
FindClosestTakesFirst(mhz) == IF Len(mhz) = 0 THEN 0 ELSE 1

\* index of the capture whose clock is nearest to 50, the first of equals
FindClosest(mhz) ==
    LET S == 1 .. Len(mhz)
        d(i) == Abs(mhz[i] - Target50)
    IN  IF S = {} THEN 0
        ELSE CHOOSE i \in S : \A j \in S : d(i) < d(j) \/ (d(i) = d(j) /\ i <= j)

\* a variant that divides by the distance to the upper capture only
InterpolateOvershoots(f_lo, f_hi, mb_lo, mb_hi) ==
    [num |-> mb_lo * (f_hi - Target50) + (Target50 - f_lo) * (mb_hi - mb_lo),
     den |-> f_hi - Target50]

\* mb50 of one size from the bracketing captures: linear in the clock
\* between the two, their mean when the two clocks coincide
Interpolate(f_lo, f_hi, mb_lo, mb_hi) ==
    IF f_hi = f_lo
    THEN [num |-> mb_lo + mb_hi, den |-> 2]
    ELSE [num |-> mb_lo * (f_hi - f_lo) + (Target50 - f_lo) * (mb_hi - mb_lo),
          den |-> f_hi - f_lo]

\* the captures with filled set, in order, as the loop collects them
UsedCaps(caps) == SelectSeq(caps, LAMBDA c : c.filled)

RdDerive ==
    /\ st.pc = "derive"
    /\ LET used    == UsedCaps(inp.caps)
           actuals == [i \in 1 .. Len(used) |-> used[i].actual_mhz]
           lo      == FindBestBelow(actuals)
           hi      == FindBestAbove(actuals)
           ic      == FindClosest(actuals)
       IN  IF Len(used) = 0
           THEN st' = [st EXCEPT !.pc = "done", !.skipped = TRUE]
           ELSE st' = [st EXCEPT !.pc = "done", !.idx_lo = lo, !.idx_hi = hi,
                         !.idx_closest = ic, !.m = Len(used),
                         !.mb50 = [si \in ReadSizes |->
                            IF lo > 0 /\ hi > 0
                            THEN Interpolate(actuals[lo], actuals[hi],
                                             used[lo].mb_s[si], used[hi].mb_s[si])
                            ELSE [num |-> used[ic].mb_s[si] * Target50,
                                  den |-> actuals[ic]]]]
    /\ UNCHANGED <<mem, dev, bus, inp>>

\* throughputs of a capture for the two sizes
MbSamples == { <<10, 40>>, <<20, 20>>, <<30, 10>> }

CapSamples ==
    { [actual_mhz |-> f, filled |-> b, mb_s |-> t] :
         f \in {32, 40, 50, 63}, b \in BOOLEAN, t \in MbSamples }

RECURSIVE SeqsUpTo(_, _)
SeqsUpTo(S, n) ==
    IF n = 0 THEN { << >> }
    ELSE LET shorter == SeqsUpTo(S, n - 1)
         IN  shorter \cup { Append(q, x) : q \in shorter, x \in S }

rd0 ==
    [pc |-> "derive", skipped |-> FALSE, idx_lo |-> 0, idx_hi |-> 0,
     idx_closest |-> 0, m |-> 0,
     mb50 |-> [si \in ReadSizes |-> [num |-> 0, den |-> 1]]]

InitDerive ==
    /\ inp \in { [entry |-> "derive", caps |-> q] : q \in SeqsUpTo(CapSamples, MaxCaps) }
    /\ mem = MemInit("erased")
    /\ dev = DevInit("open", FALSE)
    /\ bus = << >>
    /\ st = rd0

NextDerive == RdDerive

SpecDerive == InitDerive /\ [][NextDerive]_vars

\* the filled captures are one at 32 MHz and one at 63 MHz
Caps32And63 ==
    /\ inp.entry = "derive"
    /\ st.pc = "done"
    /\ LET used == UsedCaps(inp.caps)
       IN  /\ Len(used) = 2
           /\ {used[1].actual_mhz, used[2].actual_mhz} = {32, 63}

MbAt(f, si) ==
    LET used == UsedCaps(inp.caps)
    IN  used[CHOOSE i \in 1 .. Len(used) : used[i].actual_mhz = f].mb_s[si]

\* num / den lies strictly between a and b
StrictlyBetween(q, a, b) ==
    /\ q.den > 0
    /\ q.num > q.den * Min(a, b)
    /\ q.num < q.den * (IF a > b THEN a ELSE b)

\* C19 as worded: with filled captures at 32 and 63 MHz the throughput
\* derived for 50 MHz lies, for each size, strictly between the two measured
C19_StrictlyBetween ==
    Caps32And63
    => \A si \in ReadSizes :
          StrictlyBetween(st.mb50[si], MbAt(32, si), MbAt(63, si))

\* C19: with filled captures at 32 and 63 MHz the throughput derived for
\* 50 MHz lies, for each size, strictly between the two measured ones when
\* they differ, and equals them when they are equal
C19_BetweenWhenDistinct ==
    Caps32And63
    => \A si \in ReadSizes :
          IF MbAt(32, si) # MbAt(63, si)
          THEN StrictlyBetween(st.mb50[si], MbAt(32, si), MbAt(63, si))
          ELSE st.mb50[si].num = st.mb50[si].den * MbAt(32, si)

\* 10 at 32 MHz and 30 at 63 MHz give 10 + 18/31 * 20 at 50 MHz
C19_Witness ==
    /\ Caps32And63
    /\ MbAt(32, 1) = 10
    /\ MbAt(63, 1) = 30
    /\ st.mb50[1] = [num |-> 670, den |-> 31]
    /\ st.idx_lo > 0
    /\ st.idx_hi > 0

\* C20: a filled capture whose clock is exactly 50 MHz is the one the
\* derivation rests on: the derived throughput is that capture's own
C20_ExactCaptureSelected ==
    (inp.entry = "derive" /\ st.pc = "done" /\ ~st.skipped)
    => LET used == UsedCaps(inp.caps)
           at50 == {i \in 1 .. Len(used) : used[i].actual_mhz = Target50}
       IN  \A si \in ReadSizes :
              at50 # {} =>
                 \E i \in at50 : st.mb50[si].num = st.mb50[si].den * used[i].mb_s[si]

\* the filled captures, all at or below 50 MHz or all at or above it
OneSided ==
    /\ inp.entry = "derive"
    /\ st.pc = "done"
    /\ LET used == UsedCaps(inp.caps)
       IN  /\ Len(used) > 0
           /\ \/ \A i \in 1 .. Len(used) : used[i].actual_mhz <= Target50
              \/ \A i \in 1 .. Len(used) : used[i].actual_mhz >= Target50

\* the filled captures whose clock is nearest to 50 MHz
Nearest ==
    LET used == UsedCaps(inp.caps)
    IN  {i \in 1 .. Len(used) :
           \A j \in 1 .. Len(used) :
              Abs(used[i].actual_mhz - Target50) <= Abs(used[j].actual_mhz - Target50)}

\* C21: when the filled captures do not bracket 50 MHz the throughput derived
\* for each size is that of a capture nearest in clock, times 50 over that
\* capture's clock
C21_ClosestScaled ==
    OneSided
    => \E i \in Nearest :
          \A si \in ReadSizes :
             st.mb50[si].num * UsedCaps(inp.caps)[i].actual_mhz
                = st.mb50[si].den * UsedCaps(inp.caps)[i].mb_s[si] * Target50

\* captures at 32 then 40 MHz: the second is the nearer one, 30 * 50 / 40
C21_Witness ==
    /\ OneSided
    /\ Len(UsedCaps(inp.caps)) = 2
    /\ UsedCaps(inp.caps)[1].actual_mhz = 32
    /\ UsedCaps(inp.caps)[2].actual_mhz = 40
    /\ UsedCaps(inp.caps)[2].mb_s[1] = 30
    /\ st.idx_closest = 2
    /\ st.mb50[1] = [num |-> 1500, den |-> 40]

(* read_run_benches_capture: the read benchmark.  time_us_64 is a count of
   microseconds kept as two limbs, value = hi * 2^16 + lo with lo < 2^16, so
   that an interval of 2^32 microseconds and more can be written down.  Every
   transfer of the bus takes inp.T microseconds. *)

Limb == 65536

MaxSizes == 2

Time(hi, lo) == [hi |-> hi, lo |-> lo]

TimeAdd(a, b) ==
    Time(a.hi + b.hi + ((a.lo + b.lo) \div Limb), (a.lo + b.lo) % Limb)

\* a - b for a >= b
TimeSub(a, b) ==
    IF a.lo >= b.lo THEN Time(a.hi - b.hi, a.lo - b.lo)
    ELSE Time(a.hi - b.hi - 1, a.lo + Limb - b.lo)

TimeMul(t, n) ==
    Time(t.hi * n + ((t.lo * n) \div Limb), (t.lo * n) % Limb)

\* (uint32_t)(t1 - t0): the low 32 bits
CastU32(t) == Time(t.hi % Limb, t.lo)

\* the transfer sizes benchmarked (the first MaxSizes of k_read_sizes)
BenchSizes == 1 .. MaxSizes

\* ITERS_READ of the build
IterCounts == {1, 10, 100}

\* microseconds per transfer: 1, 250, 65535, 43 s, 2^29 (about 537 s)
LatencySamples == { Time(0, 1), Time(0, 250), Time(0, 65535), Time(656, 0), Time(8192, 0) }

\* time_us_64 when the benchmark starts
NowSamples == { Time(0, 0), Time(3, 65000) }

RbEntry ==
    /\ st.pc = "rb_entry"
    /\ \E alloc_ok \in BOOLEAN :
          IF ~alloc_ok
          THEN st' = [st EXCEPT !.pc = "done"]
          ELSE st' = [st EXCEPT !.pc = "rb_t0", !.si = 1]
    /\ UNCHANGED <<mem, dev, bus, inp>>

RbBatchStart ==
    /\ st.pc = "rb_t0"
    /\ st' = [st EXCEPT !.pc = "rb_loop", !.t0 = st.now, !.i = 0]
    /\ UNCHANGED <<mem, dev, bus, inp>>

RbTransfer ==
    /\ st.pc = "rb_loop"
    /\ st.i < inp.iters
    /\ st' = [st EXCEPT !.i = st.i + 1, !.now = TimeAdd(st.now, inp.T)]
    /\ UNCHANGED <<mem, dev, bus, inp>>

\* total_us, avg_us = total_us / ITERS_READ (kept as the pair), then the
\* next size, or filled = true after the last
RbBatchEnd ==
    /\ st.pc = "rb_loop"
    /\ st.i = inp.iters
    /\ LET total_us == CastU32(TimeSub(st.now, st.t0))
           last     == st.si = MaxSizes
       IN  st' = [st EXCEPT
                    !.rows = [st.rows EXCEPT ![st.si] =
                                 [done |-> TRUE, total_us |-> total_us, n |-> inp.iters]],
                    !.si = IF last THEN st.si ELSE st.si + 1,
                    !.filled = last,
                    !.pc = IF last THEN "done" ELSE "rb_t0"]
    /\ UNCHANGED <<mem, dev, bus, inp>>

rb0 ==
    [pc |-> "rb_entry", si |-> 0, i |-> 0, t0 |-> Time(0, 0), now |-> Time(0, 0),
     filled |-> FALSE,
     rows |-> [s \in BenchSizes |-> [done |-> FALSE, total_us |-> Time(0, 0), n |-> 0]]]

InitBench ==
    /\ \E T \in LatencySamples, n \in IterCounts, now \in NowSamples :
          /\ inp = [entry |-> "read_bench", T |-> T, iters |-> n]
          /\ st = [rb0 EXCEPT !.now = now]
    /\ mem = MemInit("erased")
    /\ dev = DevInit("open", FALSE)
    /\ bus = << >>

NextBench == RbEntry \/ RbBatchStart \/ RbTransfer \/ RbBatchEnd

SpecBench == InitBench /\ [][NextBench]_vars

\* C22: with every transfer taking T microseconds the average latency
\* recorded for a size, total_us / n, equals T: total_us is n times T
C22_AvgLatencyIsT ==
    \A s \in BenchSizes :
       (inp.entry = "read_bench" /\ st.rows[s].done)
       => st.rows[s].total_us = TimeMul(inp.T, st.rows[s].n)

(* write_bench_run: the write benchmark.  Sizes are 1 byte, a page and a
   sector of the scaled geometry; lost_si names the size whose page programs
   the device drops (it was still busy when they arrived). *)

WbSizes == << 1, PAGE, SECT >>

\* WRITE_TEST_SIZES: the capacity of capture->results
WriteTestSizes == Len(WbSizes)

\* WRITE_ITERS_DEFAULT of the caller, scaled
WbIterations == {1, 2}

\* test_buf[i] = (uint8_t)(i ^ (i >> 8)), for i < 256
TestByte(i) == i % 256

\* the step after a size's verify: a variant that gives up on a mismatch
WbAfterVerifyStopsOnMismatch(verify_ok) == IF verify_ok THEN "wb_prep" ELSE "wb_ret"

\* the step after a size's verify: the next size, whatever the verdict
WbAfterVerify(verify_ok) == "wb_prep"

WbEntry ==
    /\ st.pc = "wb_entry"
    /\ \E alloc_ok \in BOOLEAN :
          IF ~alloc_ok
          THEN st' = [st EXCEPT !.pc = "done", !.valid = FALSE, !.ok = FALSE]
          ELSE st' = [st EXCEPT !.pc = "wb_prep", !.valid = TRUE, !.si = 1]
    /\ UNCHANGED <<mem, dev, bus, inp>>

\* a variant that erases for one write whatever the iteration count
SectorsNeededForOneWrite(sz, iterations) == (sz + SECT - 1) \div SECT

\* bytes_needed = sz * iterations;
\* sectors_needed = (bytes_needed + SECTOR_4K - 1) / SECTOR_4K
SectorsNeeded(sz, iterations) == (sz * iterations + SECT - 1) \div SECT

\* the sectors the erase commands of a pre-erase step address
SectorsErased(base, n) == {(base + s * SECT) \div SECT : s \in 0 .. n - 1}

RECURSIVE EraseSectors(_, _, _, _)
EraseSectors(m, d, base, n) ==
    IF n = 0 THEN m
    ELSE DevErase4k(EraseSectors(m, d, base, n - 1), d, base + (n - 1) * SECT)

\* top of the loop over the sizes: the result slot is set up and the sectors
\* the batch will write are erased
WbPrepare ==
    /\ st.pc = "wb_prep"
    /\ IF st.si > inp.num_sizes \/ st.num_results >= WriteTestSizes
       THEN /\ st' = [st EXCEPT !.pc = "wb_ret"]
            /\ UNCHANGED mem
       ELSE LET sz             == WbSizes[st.si]
                sectors_needed == SectorsNeeded(sz, inp.iterations)
            IN  /\ mem' = EraseSectors(mem, dev, inp.base_addr, sectors_needed)
                /\ st' = [st EXCEPT !.pc = "wb_iter", !.iter = 0,
                             !.addr = inp.base_addr,
                             !.erased = SectorsErased(inp.base_addr, sectors_needed),
                             !.written = {},
                             !.results = Append(st.results,
                                            [size_bytes |-> sz, verify_ok |-> TRUE])]
    /\ UNCHANGED <<dev, bus, inp>>

RECURSIVE WritePages(_, _, _, _, _)
\* the while (remaining > 0) loop: page-sized chunks of test_buf from offset
WritePages(m, d, current_addr, offset, remaining) ==
    IF remaining = 0 THEN m
    ELSE LET chunk == Min(remaining, PAGE)
             data  == [k \in 0 .. chunk - 1 |-> TestByte(offset + k)]
         IN  WritePages(DevProgram(m, d, current_addr, data, chunk), d,
                        current_addr + chunk, offset + chunk, remaining - chunk)

RECURSIVE PagesWritten(_, _)
\* the byte addresses the page programs of that loop reach: a program that
\* runs past the end of its page wraps to the page's start
PagesWritten(current_addr, remaining) ==
    IF remaining = 0 THEN {}
    ELSE LET chunk == Min(remaining, PAGE)
         IN  {PAGE * (current_addr \div PAGE) + ((current_addr + k) % PAGE) :
                 k \in 0 .. chunk - 1}
             \cup PagesWritten(current_addr + chunk, remaining - chunk)

\* one iteration of the timed batch
WbIter ==
    /\ st.pc = "wb_iter"
    /\ LET sz == WbSizes[st.si]
       IN  IF st.iter < inp.iterations
           THEN /\ mem' = IF inp.lost_si = st.si THEN mem
                          ELSE WritePages(mem, dev, st.addr, 0, sz)
                /\ st' = [st EXCEPT !.iter = st.iter + 1, !.addr = st.addr + sz,
                                    !.written = st.written \cup PagesWritten(st.addr, sz)]
           ELSE /\ st' = [st EXCEPT !.pc = "wb_verify"]
                /\ UNCHANGED mem
    /\ UNCHANGED <<dev, bus, inp>>

\* the first PAGE bytes at most of the last write are read back and compared with
\* test_buf; the result is recorded and the loop goes to the next size
WbVerify ==
    /\ st.pc = "wb_verify"
    /\ LET sz         == WbSizes[st.si]
           addr       == inp.base_addr + sz * (inp.iterations - 1)
           verify_len == Min(sz, PAGE)
           bad        == {v \in 0 .. verify_len - 1 : DevRead(mem, addr + v) # TestByte(v)}
           verify_ok  == bad = {}
           n          == Len(st.results)
       IN  st' = [st EXCEPT
                    !.results = [st.results EXCEPT ![n].verify_ok = verify_ok],
                    !.readback = Append(st.readback,
                                    [v \in 0 .. verify_len - 1 |-> DevRead(mem, addr + v)]),
                    !.num_results = st.num_results + 1,
                    !.si = st.si + 1,
                    !.pc = WbAfterVerify(verify_ok)]
    /\ UNCHANGED <<mem, dev, bus, inp>>

WbReturn ==
    /\ st.pc = "wb_ret"
    /\ st' = [st EXCEPT !.pc = "done", !.ok = TRUE]
    /\ UNCHANGED <<mem, dev, bus, inp>>

wb0 ==
    [pc |-> "wb_entry", ok |-> FALSE, valid |-> FALSE, si |-> 0, iter |-> 0,
     addr |-> 0, num_results |-> 0, results |-> << >>, readback |-> << >>,
     erased |-> {}, written |-> {}]

InitWrite ==
    /\ \E n \in 1 .. WriteTestSizes, it \in WbIterations, lost \in 0 .. WriteTestSizes :
          inp = [entry |-> "write_bench", num_sizes |-> n, iterations |-> it,
                 base_addr |-> 0, lost_si |-> lost]
    /\ \E pat \in MemPats : mem = MemInit(pat)
    /\ \E kind \in {"open", "locked"} : dev = DevInit(kind, FALSE)
    /\ bus = << >>
    /\ st = wb0

NextWrite == WbEntry \/ WbPrepare \/ WbIter \/ WbVerify \/ WbReturn

SpecWrite == InitWrite /\ [][NextWrite]_vars

\* the readback taken for the i-th size differs from the test pattern
Mismatched(i) ==
    \E v \in DOMAIN st.readback[i] : st.readback[i][v] # TestByte(v)

\* C23: when write_bench_run returns, every size asked for has its result
\* recorded, whether or not an earlier size's readback mismatched, and
\* verify_ok is false for exactly the sizes whose readback mismatched
C23_MismatchMarksOnlyItsSize ==
    (inp.entry = "write_bench" /\ st.pc = "done" /\ st.valid)
    => /\ st.num_results = inp.num_sizes
       /\ Len(st.results) = inp.num_sizes
       /\ \A i \in 1 .. inp.num_sizes :
             /\ st.results[i].size_bytes = WbSizes[i]
             /\ st.results[i].verify_ok = ~Mismatched(i)

\* the first size mismatched, the two after it were run and verified
C23_Witness ==
    /\ inp.entry = "write_bench"
    /\ st.pc = "done"
    /\ st.num_results = 3
    /\ Mismatched(1)
    /\ ~st.results[1].verify_ok
    /\ st.results[2].verify_ok
    /\ st.results[3].verify_ok

(* The erase types of identify: BFPT DWORD-7 and DWORD-8 hold four pairs of
   a size exponent and an opcode *)

EtSlots == 4

\* size exponents a device may carry in a slot; 31 is left out, 2^31 being
\* beyond the integers of the checker
ExponentSamples == {0, 12, 16, 32, 44}

\* the opcode bytes of the four slots
EtOpcodes == << 32, 82, 216, 255 >>

\* bytes_for_n of the other build (part_005)
BytesForN(n) == IF n < 32 THEN 2^n ELSE 0

\* identify of picotoflash.c: sz = 1u << szn[k], undefined from 32 on;
\* build picks among what the shift can give
ShiftLeft1(n, build) ==
    IF n < 32 THEN 2^n
    ELSE CASE build = 0 -> 0
           [] build = 1 -> 1
           [] build = 2 -> 2^(n % 32)

EtRecord(sz, opc) == [present |-> sz # 0, opcode |-> opc, size_bytes |-> sz]

EtIdentify ==
    /\ st.pc = "et"
    /\ \E build \in 0 .. 2 :
          st' = [st EXCEPT !.pc = "done", !.fn = "identify",
                   !.et = [k \in 1 .. EtSlots |->
                             EtRecord(ShiftLeft1(inp.szn[k], build), EtOpcodes[k])]]
    /\ UNCHANGED <<mem, dev, bus, inp>>

EtIdentify5 ==
    /\ st.pc = "et"
    /\ st' = [st EXCEPT !.pc = "done", !.fn = "identify5",
                !.et = [k \in 1 .. EtSlots |->
                          EtRecord(BytesForN(inp.szn[k]), EtOpcodes[k])]]
    /\ UNCHANGED <<mem, dev, bus, inp>>

et0 ==
    [pc |-> "et", fn |-> "none",
     et |-> [k \in 1 .. EtSlots |-> [present |-> FALSE, opcode |-> 0, size_bytes |-> 0]]]

InitEraseTypes ==
    /\ inp \in { [entry |-> "erase_types", szn |-> q] :
                    q \in [1 .. EtSlots -> ExponentSamples] }
    /\ mem = MemInit("erased")
    /\ dev = DevInit("open", FALSE)
    /\ bus = << >>
    /\ st = et0

NextEraseTypes == EtIdentify \/ EtIdentify5

SpecEraseTypes == InitEraseTypes /\ [][NextEraseTypes]_vars

\* C24: a slot whose size exponent is 0 is recorded as absent, and a slot
\* recorded as present has a non-zero exponent and 2^exponent bytes
C24_ZeroExponentAbsent ==
    (inp.entry = "erase_types" /\ st.pc = "done")
    => \A k \in 1 .. EtSlots :
          /\ inp.szn[k] = 0 => ~st.et[k].present
          /\ st.et[k].present =>
                (inp.szn[k] # 0 /\ inp.szn[k] < 31 /\ st.et[k].size_bytes = 2^inp.szn[k])

----------------------------------------------------------------------------
(* Properties of flash_restore_from_sd, which hands the detected chip size to
   flash_restore_from_sd_with_size as known_size *)

\* the address an erase frame carries: all the bytes after the opcode
EraseFrameAddr(f) == BigEndian(SubSeq(f.hdr, 2, Len(f.hdr)))

\* the erase frame f takes in address a
EraseCovers(f, a) ==
    CASE f.hdr[1] = 199          -> TRUE
      [] f.hdr[1] \in {216, 220} -> a \div BLOCK = EraseFrameAddr(f) \div BLOCK
      [] f.hdr[1] \in {32, 33}   -> a \div SECT = EraseFrameAddr(f) \div SECT
      [] OTHER                   -> FALSE

ProgIndexes == {k \in 1 .. Len(bus) : IsProg(bus[k])}

FirstProg == CHOOSE k \in ProgIndexes : \A j \in ProgIndexes : k <= j

\* C25: once a page program has been sent, every address of the chip (of
\* its part inside the tracked window) lies in a sector, block or chip erase
\* sent before the first page program, and no erase follows that program
C25_WholeChipErasedFirst ==
    (inp.entry = "sized" /\ ProgIndexes # {})
    => /\ \A a \in 0 .. Min(inp.known_size, MemBytes) - 1 :
             \E k \in 1 .. FirstProg - 1 :
                IsErase(bus[k]) /\ EraseCovers(bus[k], a)
       /\ \A k \in FirstProg .. Len(bus) : ~IsErase(bus[k])

\* C26: a restore sends the chip erase command 0xC7 only at the caller's
\* request; none of the restore entry points takes such a request (their
\* arguments are a file or source, a size or range, and for the stream the
\* verify, skip, chunk and granularity options), so none may send it
C26_ChipEraseOnlyOnRequest ==
    \A k \in 1 .. Len(bus) : bus[k].hdr[1] # 199

----------------------------------------------------------------------------
(* Further properties of jedec_restore_stream *)

StreamRunning == inp.entry = "stream" /\ st.opts # NoOpts

----------------------------------------------------------------------------
(* Further properties of universal_restore_from_sd *)

UnivVerified ==
    inp.entry = "universal" /\ st.pc = "done" /\ st.ok /\ inp.verify

\* C28: when universal_restore_from_sd returns true with verify_after_write,
\* every byte of flash in [0, total_bytes) equals the byte of the image file
\* at the same offset
C28_VerifiedMeansEqual ==
    UnivVerified
    => \A a \in 0 .. st.total - 1 : DevRead(mem, a) = ImgByte(inp.img, a)

\* a part of two sectors erased, programmed and read back page by page
\* holds the data image
C28_Witness ==
    /\ UnivVerified
    /\ st.total = 2 * SECT
    /\ inp.img = "data"
    /\ \A a \in 0 .. 2 * SECT - 1 : mem[a] = 165
    /\ \E k \in 1 .. Len(bus) : IsErase(bus[k])
    /\ \E k \in 1 .. Len(bus) : IsRead(bus[k]) /\ bus[k].n = PAGE

----------------------------------------------------------------------------
(* Erase commands of jedec_restore_stream against the blocks it writes.  The
   pulls give the blocks, pulls[i] being [base, base + want); the bus gives
   the erase and program frames in the order they were sent. *)

\* bytes the erase frame at index k clears: the 4 KiB sector of its address
ErasedBy(k) ==
    LET a == EraseFrameAddr(bus[k])
    IN  {t \in 0 .. MemBytes - 1 : t \div SECT = a \div SECT}

\* bytes the page-program frame at index k is addressed to
ProgFrameAddr(k) == BigEndian(SubSeq(bus[k].hdr, 2, Len(bus[k].hdr)))

ProgrammedBy(k) == {ProgFrameAddr(k) + i : i \in 0 .. bus[k].n - 1}

\* the pull whose block holds the address a
BlockOf(a) ==
    CHOOSE i \in 1 .. Len(st.pulls) :
       a >= st.pulls[i].base /\ a < st.pulls[i].base + st.pulls[i].want

InSomeBlock(a) ==
    \E i \in 1 .. Len(st.pulls) :
       a >= st.pulls[i].base /\ a < st.pulls[i].base + st.pulls[i].want

\* C29: with verify_after_write, no erase command of a run clears a byte of
\* a block programmed and verified earlier in the run: an erase frame sent
\* after a page-program frame leaves the bytes of that frame's block alone
\* (the run reaches a later erase only when the block's read-back matched)
C29_NoEraseOfWrittenBlocks ==
    (inp.entry = "stream" /\ RangeInFlash /\ InForce.verify_after_write)
    => \A k \in 1 .. Len(bus) : \A j \in 1 .. Len(bus) :
          (IsProg(bus[j]) /\ IsErase(bus[k]) /\ j < k
              /\ InSomeBlock(ProgFrameAddr(j)))
          => LET b == st.pulls[BlockOf(ProgFrameAddr(j))]
             IN  ErasedBy(k) \cap (b.base .. b.base + b.want - 1) = {}

\* C30: every byte page-programmed in a block lies in the region cleared by
\* that block's own erase, the last erase frame sent before the program
C30_ProgramsInsideErased ==
    (inp.entry = "stream" /\ RangeInFlash)
    => \A j \in 1 .. Len(bus) :
          IsProg(bus[j])
          => LET E == {k \in 1 .. j - 1 : IsErase(bus[k])}
             IN  /\ E # {}
                 /\ ProgrammedBy(j)
                       \subseteq ErasedBy(CHOOSE k \in E : \A m \in E : m <= k)

\* the image cannot be opened, its size is not the probed chip size, or the
\* chip is larger than 16 MiB
UnivMustRefuse ==
    /\ inp.entry = "universal"
    /\ inp.args_ok
    /\ LET total == ProbeChip(inp.cap_id, inp.sfdp).total_bytes
       IN  ~inp.fopen_ok \/ inp.fsize # total \/ total > 16777216

\* C31: universal_restore_from_sd sends no status-register write, no erase
\* and no page program when the image file cannot be opened, when its size
\* differs from the probed chip size, or when the chip is above 16 MiB
C31_RefusalTouchesNothing ==
    UnivMustRefuse
    => /\ \A k \in 1 .. Len(bus) :
             ~IsWrsr(bus[k]) /\ ~IsErase(bus[k]) /\ ~IsProg(bus[k])
       /\ st.pc = "done" => ~st.ok

\* a file of two sectors offered for a part of one: refused after the probe
C31_Witness ==
    /\ UnivMustRefuse
    /\ st.pc = "done"
    /\ st.why = "SizeMismatch"
    /\ inp.fopen_ok
    /\ Len(bus) > 0

----------------------------------------------------------------------------
(* The button-triggered workflow of main (part_007): backup, benchmarks,
   database match, restore.  The functions it calls are taken by their
   results; calls is the list of those made, with what each returned. *)

Call(fn, ret) == [fn |-> fn, ret |-> ret]

\* a variant that restores whatever the backup did
WfRestoreDueAlways(backup_success, chip_size) == TRUE

\* if (backup_success && chip_size > 0)
WfRestoreDue(backup_success, chip_size) == backup_success /\ chip_size > 0

\* step 0: flash_detect_size; with size 0 the abort window, else the backup
WfDetect ==
    /\ st.pc = "wf_detect"
    /\ st' = [st EXCEPT !.chip_size = inp.detected,
                        !.calls = Append(st.calls, Call("flash_detect_size", inp.detected)),
                        !.pc = IF inp.detected = 0 THEN "wf_abort" ELSE "wf_backup"]
    /\ Send(<< Frame(<<90, 0, 0, 0, 0>>, 4) >>)
    /\ UNCHANGED <<mem, dev, inp>>

\* the 3 s abort window: the button pressed ends the run, else on without
\* a backup
WfAbortWindow ==
    /\ st.pc = "wf_abort"
    /\ st' = [st EXCEPT !.pc = IF inp.abort THEN "done" ELSE "wf_bench"]
    /\ UNCHANGED <<mem, dev, bus, inp>>

WfBackup ==
    /\ st.pc = "wf_backup"
    /\ st' = [st EXCEPT !.backup_success = inp.backup_ok,
                        !.calls = Append(st.calls, Call("flash_backup_to_sd", inp.backup_ok)),
                        !.pc = "wf_bench"]
    /\ Send(<< Frame(<<11, 0, 0, 0, 0>>, SECT) >>)
    /\ UNCHANGED <<mem, dev, inp>>

\* steps 1 to 4: identify, read benchmarks, and in a build with
\* ENABLE_DESTRUCTIVE_TESTS the write and erase benchmarks in the test region
WfBenchmarks ==
    /\ st.pc = "wf_bench"
    /\ Send(<< Frame(<<159>>, 3), Frame(<<3, 0, 0, 0>>, 1) >>
            \o (IF inp.destructive
                THEN << Frame(<<32, 1, 0, 0>>, 0), Frame(<<2, 1, 0, 0>>, PAGE),
                        Frame(<<32, 0, 0, 0>>, 0) >>
                ELSE << >>))
    /\ st' = [st EXCEPT !.pc = "wf_match", !.bench_end = Len(bus')]
    /\ UNCHANGED <<mem, dev, inp>>

\* step 5: the database match; a corrupt database, an SD card that does not
\* mount and an empty database each end the run here
WfMatch ==
    /\ st.pc = "wf_match"
    /\ st' = [st EXCEPT !.pc = IF inp.db = "ok" THEN "wf_restore" ELSE "done"]
    /\ UNCHANGED <<mem, dev, bus, inp>>

\* step 6: flash_restore_from_sd_with_size(backup_file, chip_size) when due,
\* then flash_verify_from_sd when it succeeded
WfRestore ==
    /\ st.pc = "wf_restore"
    /\ IF WfRestoreDue(st.backup_success, st.chip_size)
       THEN /\ Send(<< Frame(<<6>>, 0), Frame(<<1, 0, 0>>, 0),
                       Frame(<<6>>, 0), Frame(<<32, 0, 0, 0>>, 0),
                       Frame(<<6>>, 0), Frame(<<2, 0, 0, 0>>, PAGE) >>)
            /\ st' = [st EXCEPT
                        !.calls = Append(st.calls,
                                     Call("flash_restore_from_sd_with_size", inp.restore_ok)),
                        !.pc = IF inp.restore_ok THEN "wf_verify" ELSE "done"]
       ELSE /\ st' = [st EXCEPT !.pc = "done"]
            /\ UNCHANGED bus
    /\ UNCHANGED <<mem, dev, inp>>

WfVerify ==
    /\ st.pc = "wf_verify"
    /\ Send(<< Frame(<<3, 0, 0, 0>>, SECT) >>)
    /\ st' = [st EXCEPT !.calls = Append(st.calls,
                                     Call("flash_verify_from_sd", inp.verify_ok)),
                        !.pc = "done"]
    /\ UNCHANGED <<mem, dev, inp>>

wf0 ==
    [pc |-> "wf_detect", chip_size |-> 0, backup_success |-> FALSE,
     calls |-> << >>, bench_end |-> 0]

InitWorkflow ==
    /\ inp \in { [entry |-> "workflow", detected |-> z, abort |-> a, backup_ok |-> b,
                  destructive |-> d, db |-> m, restore_ok |-> r, verify_ok |-> v] :
                    z \in {0, SECT, 2 * SECT, 2^25}, a \in BOOLEAN, b \in BOOLEAN,
                    d \in BOOLEAN, m \in {"ok", "corrupt", "none"},
                    r \in BOOLEAN, v \in BOOLEAN }
    /\ mem = MemInit("old")
    /\ dev = DevInit("open", FALSE)
    /\ bus = << >>
    /\ st = wf0

NextWorkflow ==
    \/ WfDetect
    \/ WfAbortWindow
    \/ WfBackup
    \/ WfBenchmarks
    \/ WfMatch
    \/ WfRestore
    \/ WfVerify

SpecWorkflow == InitWorkflow /\ [][NextWorkflow]_vars

CallIndexes(fn) == {i \in 1 .. Len(st.calls) : st.calls[i].fn = fn}

\* C32: flash_restore_from_sd_with_size is called only after
\* flash_backup_to_sd returned true in the same run with a detected size
\* above 0; in every other run no erase or page program follows the
\* benchmarks
C32_RestoreOnlyAfterBackup ==
    inp.entry = "workflow"
    => /\ \A i \in CallIndexes("flash_restore_from_sd_with_size") :
             /\ \E j \in CallIndexes("flash_backup_to_sd") : j < i /\ st.calls[j].ret
             /\ \E j \in CallIndexes("flash_detect_size") : j < i /\ st.calls[j].ret > 0
       /\ (st.pc = "done" /\ st.bench_end > 0
              /\ ~(inp.detected > 0 /\ inp.backup_ok))
          => \A k \in st.bench_end + 1 .. Len(bus) :
                ~IsErase(bus[k]) /\ ~IsProg(bus[k])

\* a run whose backup succeeded, restored and verified at the end
C32_Witness ==
    /\ inp.entry = "workflow"
    /\ st.pc = "done"
    /\ Len(st.calls) = 4
    /\ st.calls[2] = Call("flash_backup_to_sd", TRUE)
    /\ st.calls[3] = Call("flash_restore_from_sd_with_size", TRUE)
    /\ st.calls[4].fn = "flash_verify_from_sd"

----------------------------------------------------------------------------
(* The write/verify test of main's step 2 (picotoflash.c): read a page,
   program a pattern over it, read it back, program the first reading over
   it.  The page is the scaled one, at the start of the second sector. *)

TEST_ADDR == SECT

BitXor(a, b) == a + b - 2 * BitAnd(a, b)

\* pattern[i] = (uint8_t)(i ^ 0xA5)
WtPattern == [i \in 0 .. PAGE - 1 |-> BitXor(i % 256, 165)]

PageAt(m, a) == [i \in 0 .. PAGE - 1 |-> DevRead(m, a + i)]

\* what the page may hold before the test
WtByteSamples == {0, 15, 90, 164, 165, 240, FF}

\* flash_read_03(TEST_ADDR, original, 256)
WtReadOriginal ==
    /\ st.pc = "wt_read"
    /\ Send(<< Frame(<<3>> \o AddrBytes(FALSE, TEST_ADDR), PAGE) >>)
    /\ st' = [st EXCEPT !.original = PageAt(mem, TEST_ADDR), !.pc = "wt_pattern"]
    /\ UNCHANGED <<mem, dev, inp>>

\* flash_page_program(TEST_ADDR, pattern, 256): WREN, 0x02, wait
WtProgramPattern ==
    /\ st.pc = "wt_pattern"
    /\ Send(<< Frame(<<6>>, 0), Frame(<<2>> \o AddrBytes(FALSE, TEST_ADDR), PAGE) >>)
    /\ mem' = DevProgram(mem, dev, TEST_ADDR, WtPattern, PAGE)
    /\ st' = [st EXCEPT !.pc = "wt_verify"]
    /\ UNCHANGED <<dev, inp>>

\* flash_read_03(TEST_ADDR, verify, 256) and the comparison with the pattern
WtReadVerify ==
    /\ st.pc = "wt_verify"
    /\ Send(<< Frame(<<3>> \o AddrBytes(FALSE, TEST_ADDR), PAGE) >>)
    /\ st' = [st EXCEPT !.ok = (PageAt(mem, TEST_ADDR) = WtPattern), !.pc = "wt_restore"]
    /\ UNCHANGED <<mem, dev, inp>>

\* flash_page_program(TEST_ADDR, original, 256)
WtProgramOriginal ==
    /\ st.pc = "wt_restore"
    /\ Send(<< Frame(<<6>>, 0), Frame(<<2>> \o AddrBytes(FALSE, TEST_ADDR), PAGE) >>)
    /\ mem' = DevProgram(mem, dev, TEST_ADDR, st.original, PAGE)
    /\ st' = [st EXCEPT !.pc = "done"]
    /\ UNCHANGED <<dev, inp>>

wt0 == [pc |-> "wt_read", original |-> [i \in 0 .. PAGE - 1 |-> 0], ok |-> FALSE]

InitWriteTest ==
    /\ inp \in { [entry |-> "write_test", before |-> b] :
                    b \in [0 .. PAGE - 1 -> WtByteSamples] }
    /\ mem = [t \in 0 .. MemBytes - 1 |->
                IF t \in TEST_ADDR .. TEST_ADDR + PAGE - 1
                THEN inp.before[t - TEST_ADDR] ELSE 240]
    /\ dev \in {DevInit("open", FALSE), DevInit("locked", FALSE)}
    /\ bus = << >>
    /\ st = wt0

NextWriteTest ==
    \/ WtReadOriginal
    \/ WtProgramPattern
    \/ WtReadVerify
    \/ WtProgramOriginal

SpecWriteTest == InitWriteTest /\ [][NextWriteTest]_vars

\* C33: when the write/verify test is over, the page at the test address
\* holds what it held before the test, whatever that was
C33_TestLeavesPageUnchanged ==
    (inp.entry = "write_test" /\ st.pc = "done")
    => PageAt(mem, TEST_ADDR) = inp.before

\* what the test leaves on an unlocked device: the earlier content with the
\* pattern's zero bits cleared
C33_PageIsAndOfPattern ==
    (inp.entry = "write_test" /\ st.pc = "done" /\ ~DevLocked(dev))
    => \A i \in 0 .. PAGE - 1 :
          mem[TEST_ADDR + i] = ByteAnd(inp.before[i], WtPattern[i])

----------------------------------------------------------------------------
(* The button-triggered full flow of main (picotoflash.c): identify, write
   test, backup, read benchmarks, write and erase benchmarks, database
   match, restore and snapshot.  Each step is taken by the command frames it
   sends and by what it does to the device's address mode. *)

TEST_BASE_ADDR == 1048576

\* the device takes EN4B (0xB7) and EX4B (0xE9) as they come
DevAfter(d, frames) ==
    LET modes == {i \in 1 .. Len(frames) : frames[i].hdr \in {<<183>>, <<233>>}}
    IN  IF modes = {} THEN d
        ELSE LET last == CHOOSE i \in modes : \A j \in modes : j <= i
             IN  [d EXCEPT !.mode4 = (frames[last].hdr = <<183>>)]

\* step 1: identify(): JEDEC ID and the SFDP reads
FfIdentify ==
    /\ st.pc = "ff_identify"
    /\ Send(<< Frame(<<159>>, 3), Frame(<<90, 0, 0, 0, 0>>, 8) >>)
    /\ st' = [st EXCEPT !.pc = "ff_write_test"]
    /\ UNCHANGED <<mem, dev, inp>>

\* step 2: the write/verify test, with flash_read_03 and flash_page_program
\* (the test page lies outside the tracked window)
FfWriteTest ==
    /\ st.pc = "ff_write_test"
    /\ LET rd == Frame(<<3>> \o AddrBytes(FALSE, 65536), 256)
           pp == Frame(<<2>> \o AddrBytes(FALSE, 65536), 256)
       IN  Send(<< rd, Frame(<<6>>, 0), pp, rd, Frame(<<6>>, 0), pp >>)
    /\ st' = [st EXCEPT !.pc = "ff_backup"]
    /\ UNCHANGED <<mem, dev, inp>>

\* the frames of jedec_backup_full from its first chunks: jedec_read_chunk
\* with the width the probed chip asks for
DumpFrames(chip) ==
    << Frame(ReadHdr(chip, 0), 65536), Frame(ReadHdr(chip, 65536), 65536) >>

\* step 3: universal_dump_after_ident when the SD card is mounted:
\* jedec_init, jedec_probe, f_open, jedec_backup_full
FfBackup ==
    /\ st.pc = "ff_backup"
    /\ IF ~inp.sd_mounted
       THEN /\ st' = [st EXCEPT !.pc = "ff_read_bench"]
            /\ UNCHANGED <<bus, dev>>
       ELSE LET chip   == ProbeChip(inp.cap_id, inp.sfdp)
                frames == ProbeFrames(chip)
                          \o (IF inp.dump_open_ok THEN DumpFrames(chip) ELSE << >>)
            IN  /\ Send(frames)
                /\ dev' = DevAfter(dev, frames)
                /\ st' = [st EXCEPT !.pc = "ff_read_bench",
                                    !.have_path = inp.dump_open_ok]
    /\ UNCHANGED <<mem, inp>>

\* step 4: read_run_benches_capture: 0x03 or 0x0B with three address bytes
FfReadBench ==
    /\ st.pc = "ff_read_bench"
    /\ Send(<< Frame((IF inp.sfdp THEN <<11>> ELSE <<3>>) \o AddrBytes(FALSE, 0)
                     \o (IF inp.sfdp THEN <<0>> ELSE << >>), 256) >>)
    /\ st' = [st EXCEPT !.pc = "ff_destructive"]
    /\ UNCHANGED <<mem, dev, inp>>

\* step 5: write_bench_run_multi_clock and erase_run_benches_at_clock in the
\* test region
FfWriteErase ==
    /\ st.pc = "ff_destructive"
    /\ LET a == TEST_BASE_ADDR + 65536
       IN  Send(<< Frame(<<6>>, 0), Frame(<<32>> \o AddrBytes(FALSE, a), 0),
                   Frame(<<6>>, 0), Frame(<<2>> \o AddrBytes(FALSE, a), 256),
                   Frame(<<3>> \o AddrBytes(FALSE, a), 256),
                   Frame(<<6>>, 0),
                   Frame(<<32>> \o AddrBytes(FALSE, TEST_BASE_ADDR), 0),
                   Frame(<<3>> \o AddrBytes(FALSE, TEST_BASE_ADDR), 256) >>)
    /\ st' = [st EXCEPT !.pc = "ff_match"]
    /\ UNCHANGED <<mem, dev, inp>>

\* step 6: the database match, which may unmount or mount the SD card
FfMatch ==
    /\ st.pc = "ff_match"
    /\ st' = [st EXCEPT !.pc = "ff_restore", !.sd_mounted = inp.sd_after]
    /\ UNCHANGED <<mem, dev, bus, inp>>

\* the frames of universal_restore_from_sd past its refusals: status
\* registers, then erase, program and read with three address bytes
UnivFrames ==
    << Frame(<<5>>, 1), Frame(<<6>>, 0), Frame(<<1, 0>>, 0),
       Frame(<<6>>, 0), Frame(<<32>> \o AddrBytes(FALSE, 0), 0),
       Frame(<<6>>, 0), Frame(<<2>> \o AddrBytes(FALSE, 0), 256),
       Frame(<<3>> \o AddrBytes(FALSE, 0), 256) >>

\* step 7: universal_restore_from_sd and make_state_after_restore_dump when
\* the SD card is mounted and a backup path was set
FfRestore ==
    /\ st.pc = "ff_restore"
    /\ IF ~(st.sd_mounted /\ st.have_path)
       THEN /\ st' = [st EXCEPT !.pc = "done"]
            /\ UNCHANGED <<bus, dev>>
       ELSE LET chip   == ProbeChip(inp.cap_id, inp.sfdp)
                why    == UrRefusal(chip)
                frames == ProbeFrames(chip)
                          \o (IF why = "none" THEN UnivFrames ELSE << >>)
                          \o ProbeFrames(chip)
                          \o (IF inp.dump_open_ok THEN DumpFrames(chip) ELSE << >>)
            IN  /\ Send(frames)
                /\ dev' = DevAfter(dev, frames)
                /\ st' = [st EXCEPT !.pc = "done", !.why = why]
    /\ UNCHANGED <<mem, inp>>

ff0 == [pc |-> "ff_identify", have_path |-> FALSE, sd_mounted |-> FALSE, why |-> "none"]

InitFlow ==
    /\ inp \in { [entry |-> "full_flow", cap_id |-> c, sfdp |-> s, sd_mounted |-> m,
                  sd_after |-> a, dump_open_ok |-> o, fopen_ok |-> r,
                  fsize |-> CapacityFromId(c)] :
                    c \in {20, 24, 25}, s \in BOOLEAN, m \in BOOLEAN, a \in BOOLEAN,
                    o \in BOOLEAN, r \in BOOLEAN }
    /\ mem = MemInit("old")
    /\ dev = DevInit("open", FALSE)
    /\ bus = << >>
    /\ st = [ff0 EXCEPT !.sd_mounted = inp.sd_mounted]

NextFlow ==
    \/ FfIdentify
    \/ FfWriteTest
    \/ FfBackup
    \/ FfReadBench
    \/ FfWriteErase
    \/ FfMatch
    \/ FfRestore

SpecFlow == InitFlow /\ [][NextFlow]_vars

\* commands that carry an address in the device's current width
IsAddressed(f) == IsRead(f) \/ (IsErase(f) /\ Len(f.hdr) > 1) \/ IsProg(f)

\* address bytes of a frame: what follows the opcode, less the dummy byte
\* of a fast read
AddrLen(f) == Len(f.hdr) - 1 - (IF f.hdr[1] = 11 THEN 1 ELSE 0)

\* whether the device is in 4-byte mode when frame k arrives: the last of
\* EN4B and EX4B before it was EN4B (it starts in 3-byte mode)
Mode4At(k) ==
    LET modes == {j \in 1 .. k - 1 : bus[j].hdr \in {<<183>>, <<233>>}}
    IN  modes # {} /\ bus[CHOOSE j \in modes : \A i \in modes : i <= j].hdr = <<183>>

\* C34: every addressed command of a full-flow run carries as many address
\* bytes as the device's address mode at that moment asks for
C34_AddressWidthMatchesMode ==
    inp.entry = "full_flow"
    => \A k \in 1 .. Len(bus) :
          IsAddressed(bus[k]) => AddrLen(bus[k]) = (IF Mode4At(k) THEN 4 ELSE 3)

\* the same for parts of at most 16 MiB, which the probe leaves in 3-byte mode
C34_SmallPartsMatch ==
    (inp.entry = "full_flow" /\ CapacityFromId(inp.cap_id) <= MiB16)
    => \A k \in 1 .. Len(bus) :
          IsAddressed(bus[k]) => AddrLen(bus[k]) = 3 /\ ~Mode4At(k)

----------------------------------------------------------------------------
(* flash_backup_to_sd and flash_verify_from_sd (part_004), which with the
   second flash_restore_from_sd_with_size switch the device into 4-byte
   mode for a part above 16 MiB *)

\* the buffers of the two functions: malloc(65536) and flash_buf[4096]
BackupBuf == 65536

VerifyBuf == 4096

\* a variant that leaves without flash_exit_4byte_mode
LeaveFramesNone(use_4byte) == << >>

\* if (use_4byte) flash_exit_4byte_mode();
LeaveFrames(use_4byte) == IF use_4byte THEN << Frame(<<233>>, 0) >> ELSE << >>

\* if (use_4byte) flash_enter_4byte_mode();
EnterFrames(use_4byte) == IF use_4byte THEN << Frame(<<183>>, 0) >> ELSE << >>

\* flash_backup_to_sd up to its loop: flash_detect_size, EN4B above 16 MiB,
\* f_open, malloc
FbEntry ==
    /\ inp.entry = "fbackup"
    /\ st.pc = "entry"
    /\ LET size == inp.detected
           use4 == size > MiB16
           det  == << Frame(<<90, 0, 0, 0, 0>>, 4) >>
       IN  IF size = 0
           THEN /\ st' = Return(FALSE, "NoSize")
                /\ Send(det)
                /\ UNCHANGED dev
           ELSE \E alloc_ok \in BOOLEAN :
                  LET leave  == ~inp.fopen_ok \/ ~alloc_ok
                      frames == det \o EnterFrames(use4)
                                \o (IF leave THEN LeaveFrames(use4) ELSE << >>)
                  IN  /\ Send(frames)
                      /\ dev' = DevAfter(dev, frames)
                      /\ st' = IF ~inp.fopen_ok THEN Return(FALSE, "OpenFailed")
                               ELSE IF ~alloc_ok THEN Return(FALSE, "NoMemory")
                               ELSE [st EXCEPT !.pc = "fb_loop", !.use_4byte = use4,
                                               !.size = size, !.addr = 0]
    /\ UNCHANGED <<mem, inp>>

\* one round of the backup loop: a fast read of a chunk, 0x0C with four
\* address bytes or 0x0B with three, and f_write; or the end of the backup
FbChunk ==
    /\ st.pc = "fb_loop"
    /\ IF st.addr < st.size
       THEN LET chunk_size == Min(st.size - st.addr, BackupBuf)
                hdr == << IF st.use_4byte THEN 12 ELSE 11 >>
                       \o AddrBytes(st.use_4byte, st.addr) \o << 0 >>
            IN  \E written \in BOOLEAN :
                  LET frames == << Frame(hdr, chunk_size) >>
                                \o (IF written THEN << >> ELSE LeaveFrames(st.use_4byte))
                  IN  /\ Send(frames)
                      /\ dev' = DevAfter(dev, frames)
                      /\ st' = IF written
                               THEN [st EXCEPT !.addr = st.addr + chunk_size]
                               ELSE Return(FALSE, "WriteFailed")
       ELSE LET frames == LeaveFrames(st.use_4byte)
            IN  /\ Send(frames)
                /\ dev' = DevAfter(dev, frames)
                /\ st' = Return(TRUE, "Ok")
    /\ UNCHANGED <<mem, inp>>

\* memcmp(flash_buf, file_buf, chunk_size) of the n bytes read from the
\* flash at from with those of the file at position at; past the tracked
\* window the flash reads 0xFF and the images verified are the same byte
\* throughout, so one byte stands for all of them there
ChunkSame(from, at, n) ==
    LET tracked == IF from < MemBytes THEN Min(n, MemBytes - from) ELSE 0
    IN  /\ \A i \in 0 .. tracked - 1 :
              DevRead(mem, from + i) = ImgByte(inp.img, at + i)
        /\ tracked < n => ImgByte(inp.img, at + tracked) = FF

\* flash_verify_from_sd up to its loop: f_open, f_size, EN4B for a file
\* above 16 MiB
FvEntry ==
    /\ inp.entry = "fverify"
    /\ st.pc = "entry"
    /\ IF ~inp.fopen_ok
       THEN /\ st' = Return(FALSE, "OpenFailed")
            /\ UNCHANGED <<bus, dev>>
       ELSE LET use4   == inp.fsize > MiB16
                frames == EnterFrames(use4)
            IN  /\ Send(frames)
                /\ dev' = DevAfter(dev, frames)
                /\ st' = [st EXCEPT !.pc = "fv_loop", !.use_4byte = use4,
                                    !.size = inp.fsize, !.addr = 0]
    /\ UNCHANGED <<mem, inp>>

\* one round of the verify loop: a read of a chunk with 0x03 and the
\* address in the width chosen, f_read, memcmp; or the end of the loop
FvChunk ==
    /\ st.pc = "fv_loop"
    /\ IF st.addr < st.size
       THEN LET chunk_size == Min(st.size - st.addr, VerifyBuf)
                hdr  == << 3 >> \o AddrBytes(st.use_4byte, st.addr)
                from == DevAddr(dev, hdr)
                same == ChunkSame(from, st.addr, chunk_size)
            IN  \E read_ok \in BOOLEAN :
                  LET go     == read_ok /\ same
                      frames == << Frame(hdr, chunk_size) >>
                                \o (IF go THEN << >> ELSE LeaveFrames(st.use_4byte))
                  IN  /\ Send(frames)
                      /\ dev' = DevAfter(dev, frames)
                      /\ st' = IF go
                               THEN [st EXCEPT !.addr = st.addr + chunk_size]
                               ELSE Return(FALSE, IF read_ok THEN "Mismatch"
                                                  ELSE "ReadError")
       ELSE LET frames == LeaveFrames(st.use_4byte)
            IN  /\ Send(frames)
                /\ dev' = DevAfter(dev, frames)
                /\ st' = Return(TRUE, "Ok")
    /\ UNCHANGED <<mem, inp>>

fb0 ==
    [pc |-> "entry", ok |-> FALSE, why |-> "none", use_4byte |-> FALSE,
     size |-> 0, addr |-> 0]

InitMode4 ==
    /\ \/ /\ inp \in { [entry |-> "fbackup", detected |-> z, fopen_ok |-> o] :
                          z \in {0, SECT, 2 * SECT, 2^25}, o \in BOOLEAN }
          /\ st = fb0
       \/ /\ inp \in { [entry |-> "fverify", fsize |-> z, fopen_ok |-> o, img |-> g] :
                          z \in {SECT, 2 * SECT, MiB16 + VerifyBuf}, o \in BOOLEAN,
                          g \in {"blank", "data"} }
          /\ st = fb0
       \/ /\ inp \in {i \in SizedInputs : i.variant = "v2" /\ i.img \in {"blank", "data"}}
          /\ st = sz0
    /\ \E k \in {"open", "locked"} : dev = DevInit(k, FALSE)
    /\ \E mp \in {"erased", "old"} : mem = MemInit(mp)
    /\ bus = << >>

NextMode4 ==
    \/ FbEntry
    \/ FbChunk
    \/ FvEntry
    \/ FvChunk
    \/ SzEntry
    \/ SzUnprotect
    \/ SzUnprotected
    \/ SzErase
    \/ SzProg
    \/ WaitBusy

SpecMode4 == InitMode4 /\ [][NextMode4]_vars

SentEn4b == \E k \in 1 .. Len(bus) : bus[k].hdr = <<183>>

\* C35: when flash_backup_to_sd, flash_restore_from_sd_with_size or
\* flash_verify_from_sd has returned after sending EN4B, it sent EX4B after
\* it and the device is in 3-byte mode, whatever the result
C35_Exits4ByteOnReturn ==
    (inp.entry \in {"fbackup", "fverify", "sized"} /\ st.pc = "done" /\ SentEn4b)
    => /\ ~Mode4At(Len(bus) + 1)
       /\ ~dev.mode4
       /\ bus[Len(bus)].hdr = <<233>>

\* a verify of a file above 16 MiB that failed after its first 4-byte read
C35_Witness ==
    /\ inp.entry = "fverify"
    /\ st.pc = "done"
    /\ ~st.ok
    /\ SentEn4b
    /\ \E k \in 1 .. Len(bus) : bus[k].hdr[1] = 3 /\ Len(bus[k].hdr) = 5

----------------------------------------------------------------------------
(* jedec_restore_stream called with option values other than the defaults:
   erase_gran and program_chunk of 0, and a program_chunk that is not a
   power of two.  The device leaves the busy state and the source delivers
   what it is asked for or fails. *)

OptsWith(gran, chunk, skip_erase, skip_prog) ==
    [verify_after_write |-> FALSE, skip_erase_when_all_ff |-> skip_erase,
     skip_prog_when_all_ff |-> skip_prog, program_chunk |-> chunk,
     erase_gran |-> gran]

PlainChip ==
    [use_4byte_addr |-> FALSE, read_cmd |-> 3, page_size |-> PAGE, sector_size |-> SECT]

\* erase_gran = 0 (with blocks skipped, so that nothing is sent);
\* program_chunk of a page, two pages, a page and a byte; program_chunk = 0
\* on ranges none of whose blocks starts at address 0
OptsInputs ==
    { [entry |-> "stream", has_src |-> TRUE, chip |-> PlainChip, opts |-> o,
       offset |-> r[1], len |-> r[2], img |-> g] :
          o \in {NoOpts, OptsWith(0, PAGE, TRUE, TRUE)},
          r \in {<<0, SECT>>, <<0, MemBytes>>, <<1, SECT>>},
          g \in {"blank", "data", "sparse"} }
    \cup
    { [entry |-> "stream", has_src |-> TRUE, chip |-> PlainChip,
       opts |-> OptsWith(SECT, c, e, p),
       offset |-> r[1], len |-> r[2], img |-> g] :
          c \in {PAGE, 2 * PAGE, PAGE + 1}, e \in BOOLEAN, p \in BOOLEAN,
          r \in {<<0, SECT>>, <<0, MemBytes>>, <<1, SECT>>, <<PAGE, SECT>>},
          g \in {"data", "sparse"} }
    \cup
    { [entry |-> "stream", has_src |-> TRUE, chip |-> PlainChip,
       opts |-> OptsWith(SECT, 0, e, p),
       offset |-> 1, len |-> n, img |-> g] :
          e \in BOOLEAN, p \in BOOLEAN, n \in {SECT, 2 * SECT - 1},
          g \in {"data", "sparse"} }

InitOpts ==
    /\ inp \in OptsInputs
    /\ st = st0
    /\ \E k \in {"open", "locked"} : dev = DevInit(k, FALSE)
    /\ \E mp \in {"erased", "old"} : mem = MemInit(mp)
    /\ bus = << >>

NextOpts ==
    \/ RsEntry
    \/ UnpRead
    \/ UnpGlobalUnlock
    \/ UnpWriteSR
    \/ UnpReadback
    \/ RsPull
    \/ RsErase
    \/ RsProgPage
    \/ RsVerify
    \/ WaitBusy

SpecOpts == InitOpts /\ [][NextOpts]_vars

\* the call keeps running while it can, and a device that is polled leaves
\* the busy state in the end
FairSpecOpts == SpecOpts /\ WF_vars(NextOpts)

\* C36: every call of jedec_restore_stream returns
C36_Terminates == <>(st.pc = "done")

\* calls whose erase_gran and program_chunk in force are above 0 return
C36_TerminatesWithPositiveOpts ==
    (/\ EffectiveOpts(inp.chip, inp.opts).erase_gran > 0
     /\ EffectiveOpts(inp.chip, inp.opts).program_chunk > 0)
    => <>(st.pc = "done")

\* C37: every page program of the restore carries at most program_chunk
\* bytes, all of them in one program_chunk-aligned page
C37_ProgramsWithinChunk ==
    inp.entry = "stream"
    => \A k \in 1 .. Len(bus) :
          IsProg(bus[k])
          => LET c == EffectiveOpts(inp.chip, inp.opts).program_chunk
                 a == ProgFrameAddr(k)
                 n == bus[k].n
             IN  /\ n <= c
                 /\ n > 0 => a \div c = (a + n - 1) \div c

\* the same for the program_chunk values that are powers of two
C37_PowerOfTwoChunksHold ==
    (/\ inp.entry = "stream"
     /\ EffectiveOpts(inp.chip, inp.opts).program_chunk \in {PAGE, 2 * PAGE})
    => \A k \in 1 .. Len(bus) :
          IsProg(bus[k])
          => LET c == EffectiveOpts(inp.chip, inp.opts).program_chunk
                 a == ProgFrameAddr(k)
                 n == bus[k].n
             IN  n <= c /\ n > 0 /\ a \div c = (a + n - 1) \div c

----------------------------------------------------------------------------
(* write_bench_run: the timed batch against the pre-erase of its size *)

\* C38: with a sector-aligned base address, every byte address the page
\* programs of a size's batch reach lies in a sector that size's pre-erase
\* step erased
C38_WritesInsidePreErased ==
    (inp.entry = "write_bench" /\ inp.base_addr % SECT = 0)
    => \A a \in st.written : a \div SECT \in st.erased

\* two writes of a sector each done, into the two sectors erased for them
C38_Witness ==
    /\ inp.entry = "write_bench"
    /\ inp.base_addr % SECT = 0
    /\ st.pc = "wb_verify"
    /\ WbSizes[st.si] = SECT
    /\ inp.iterations = 2
    /\ Cardinality(st.erased) = 2
    /\ Cardinality(st.written) = 2 * SECT

====
